---- MODULE Spec2Model ----
(***************************************************************************)
(* A model of the module registration / bootstrap orchestrator            *)
(* (ModuleFactory), its lifecycle hook phases, its signal-driven shutdown *)
(* and the guard protocol of the route handlers it mounts.                 *)
(***************************************************************************)
EXTENDS Integers, Sequences, FiniteSets, Bags, TLC

\* ------------------------------------------------------------------ bounds
\* longest import list of a module descriptor
MaxImports == 2
\* number of termination signals the environment delivers
MaxSignals == 2
\* longest guard list of a route
MaxGuards == 2
\* requests in flight at the same time
MaxRequests == 2
\* calls of reset() on one factory
MaxResets == 1
\* decorators applied to the methods of one controller class
MaxDecorators == 4
\* field issues in the errors list of one validation error
MaxIssues == 2
\* calls of bootstrap() on one factory without a reset() in between
MaxCalls == 2
\* registerModule calls made while another one is suspended
MaxOverlaps == 1

\* ------------------------------------------------- the application classes
Modules == {"A", "B", "C"}
ProviderClasses == {"S1", "S2", "S3"}
ControllerClasses == {"K1", "K2"}
GuardNames == <<"G1", "G2", "G3", "G4">>
GuardClasses == {GuardNames[i] : i \in 1..MaxGuards}
Classes == Modules \cup ProviderClasses \cup ControllerClasses \cup GuardClasses

\* mutants: the bootstrap phases, and the first two shutdown phases, swapped
InitHooksSwapped == <<"onApplicationBootstrap", "onModuleInit">>
ShutdownHooksSwapped ==
  <<"beforeApplicationShutdown", "onModuleDestroy", "onApplicationShutdown">>

\* the five lifecycle hook method names: the phases bootstrap runs in order,
\* and the phases shutdown runs in order
InitHooks == <<"onModuleInit", "onApplicationBootstrap">>
ShutdownHooks == <<"onModuleDestroy", "beforeApplicationShutdown", "onApplicationShutdown">>
HookNames == {"onModuleInit", "onApplicationBootstrap", "onModuleDestroy",
              "beforeApplicationShutdown", "onApplicationShutdown"}

Signals == {"SIGINT", "SIGTERM"}

\* mutant: cron first, JWT last
PluginOrderReversed == <<"cron", "cors", "jwt">>

\* plugin registration order inside registerModule: JWT, CORS, cron
PluginOrder == <<"jwt", "cors", "cron">>

\* sequences over S without repetition, of length at most n
SeqsNoDup(S, n) ==
  {s \in UNION {[1..k -> S] : k \in 0..n} :
     \A i, j \in DOMAIN s : i # j => s[i] # s[j]}

SeqRange(s) == {s[i] : i \in DOMAIN s}

\* ------------------------------------------------------ module descriptors
\* what @Module({...}) records for each module class, apart from imports
\* the providers lists: every provider class declared by one module, or the
\* singleton S1 and the transient S2 listed by module C as well
DistinctProviders == [A |-> <<"S1">>, B |-> <<"S2", "S3">>, C |-> <<>>]
SharedProviders == [A |-> <<"S1">>, B |-> <<"S2", "S3">>, C |-> <<"S1", "S2">>]
ModuleControllers == [A |-> <<"K1">>, B |-> <<>>, C |-> <<"K2">>]
\* the plugins configuration: JWT and cron on module B, CORS on module C, or
\* none declared by any module
DeclaredPlugins == [A |-> {}, B |-> {"jwt", "cron"}, C |-> {"cors"}]
NoPlugins == [A |-> {}, B |-> {}, C |-> {}]

\* which lifecycle hooks the classes of the application implement
AllHooks == [c \in Classes |-> HookNames]
SomeHooks ==
  [c \in Classes |->
     CASE c \in ProviderClasses -> IF c = "S2" THEN {} ELSE HookNames
       [] c \in ControllerClasses -> {"onModuleInit", "onModuleDestroy", "onApplicationShutdown"}
       [] OTHER -> IF c = "A" THEN {"onApplicationBootstrap", "beforeApplicationShutdown"} ELSE {}]
HookProfiles == {AllHooks, SomeHooks}

\* modules reachable from m through the import lists imp (m included)
RECURSIVE ReachFrom(_, _, _)
ReachFrom(imp, frontier, seen) ==
  IF frontier = {} THEN seen
  ELSE LET new == UNION {SeqRange(imp[m]) : m \in frontier} \ (seen \cup frontier)
       IN ReachFrom(imp, new, seen \cup frontier)
Reach(imp, m) == ReachFrom(imp, {m}, {})

\* modules m imports directly or transitively
Deps(imp, m) == UNION {Reach(imp, n) : n \in SeqRange(imp[m])}

Acyclic(imp) == \A m \in Modules : m \notin Deps(imp, m)

RootModule == "A"

\* import graphs: every module lists at most MaxImports distinct other
\* modules (cycles through two or three modules included); modules the root
\* cannot reach are never looked at and keep an empty list
ImportGraphs ==
  {imp \in [Modules -> SeqsNoDup(Modules, MaxImports)] :
     \A m \in Modules :
        /\ m \notin SeqRange(imp[m])
        /\ m \notin Reach(imp, RootModule) => imp[m] = <<>>}

\* container lifetime each class is declared with: @Singleton() registers the
\* class as a singleton when it is declared, @Injectable() and @Controller()
\* leave it unregistered
ClassLifetime ==
  [c \in Classes |-> IF c \in {"S1", "S3"} THEN "singleton" ELSE "transient"]

\* route descriptors recorded for each controller class
RoutesOf ==
  [c \in ControllerClasses |->
     IF c = "K1" THEN <<[method |-> "get", path |-> "/k1", handlerName |-> "list"],
                        [method |-> "post", path |-> "/k1", handlerName |-> "create"]>>
     ELSE <<[method |-> "get", path |-> "/k2", handlerName |-> "show"]>>]

\* the guard list a handler carries when its route is mounted (route.guards,
\* or the guards stored against the handler name): none on the handlers of
\* the application below, G1..Gn on K1.create in the request specification
NoGuards == [h \in {"list", "create", "show"} |-> <<>>]
GuardLists ==
  {[NoGuards EXCEPT !["create"] = [i \in 1..n |-> GuardNames[i]]] : n \in 1..MaxGuards}

\* bootstrap options a caller may pass: has names the fields that are given
Absent == "absent"
DEFAULT_IGNORED_PATHS ==
  <<"/favicon.ico", "/robots.txt", "/apple-touch-icon.png",
    "/apple-touch-icon-precomposed.png">>
OptionInputs ==
  {[has |-> {}, ignoredPaths |-> <<>>, enableErrorHandling |-> TRUE,
    errorHandler |-> Absent],
   [has |-> {"ignoredPaths", "enableErrorHandling"}, ignoredPaths |-> <<"/health">>,
    enableErrorHandling |-> FALSE, errorHandler |-> Absent],
   [has |-> {"ignoredPaths", "errorHandler"}, ignoredPaths |-> <<"/favicon.ico", "/metrics">>,
    enableErrorHandling |-> TRUE, errorHandler |-> "custom"]}
NoOptions == CHOOSE o \in OptionInputs : o.has = {}

\* constructors without parameters: nothing is injected
NoParameters == [c \in Classes |-> <<>>]
\* the controllers take the singleton S1 and the transient S2, the singleton
\* S3 takes the transient S2
SomeParameters ==
  [c \in Classes |->
     CASE c \in ControllerClasses -> <<"S1", "S2">>
       [] c = "S3" -> <<"S2">>
       [] OTHER -> <<>>]

\* --------------------------------------------------------------- the state
VARIABLES
  imports,              \* the import list of every module descriptor
  providers,            \* the providers list of every module descriptor
  plugins,              \* the plugins configuration of every module descriptor
  hooksOf,              \* the hook methods every class implements
  guardsOf,             \* the guard list every route handler carries
  decorated,            \* the classes that carry a module descriptor
  faulty,               \* the classes whose constructor throws, and the plugins
                        \* whose registration function throws
  stalled,              \* the shutdown hooks (class, hook name) whose promise
                        \* never settles
  paramTypes,           \* the constructor parameter types of every class
  resets,               \* what the factory held at each call of reset()
  err,                  \* one call of the default error handler: the error
                        \* signal it is given, what it answers and logs
  deco,                 \* the decorators of a controller class as they are
                        \* evaluated: route descriptors, guard metadata
  reqs,                 \* the requests in flight: context, execution context
  registeredModules,    \* ModuleFactory.registeredModules
  registeredInstances,  \* ModuleFactory.registeredInstances
  isShuttingDown,       \* ModuleFactory.isShuttingDown
  mainApp,              \* ModuleFactory.mainApp
  jwtPluginConfig,      \* ModuleFactory.jwtPluginConfig
  options,              \* ModuleFactory.options
  container,            \* the dependency container: registrations and singletons
  app,                  \* the application: mounted routes, plugins, interceptors
  proc,                 \* the process: installed signal handlers, exit status
  boot,                 \* the bootstrap() call: position, registerModule stack
  shut,                 \* the shutdown() call started by a signal (late: a later
                        \* signal arrived while one of its hooks was awaited)
  nextId,               \* identity of the next constructed instance
  signalsSent,          \* signals delivered so far
  trace                 \* history of resolutions, records and hook calls

vars == <<imports, providers, plugins, hooksOf, guardsOf, decorated, faulty, stalled, paramTypes,
          resets, deco, err, reqs,
          registeredModules, registeredInstances, isShuttingDown,
          mainApp, jwtPluginConfig, options, container, app, proc, boot, shut,
          nextId, signalsSent, trace>>

\* the application as written and the record of resets: left alone by every
\* step of bootstrap, shutdown and request handling
progVars == <<imports, providers, plugins, hooksOf, guardsOf, decorated, faulty, stalled, paramTypes,
              resets, deco, err>>
factoryVars == <<registeredModules, registeredInstances, isShuttingDown, mainApp,
                 jwtPluginConfig, options>>

\* metadata.providers and metadata.plugins of each module class
ModuleProviders == providers
ModulePlugins == plugins

Event(ev, cls, mod, n, hook) ==
  [ev |-> ev, cls |-> cls, mod |-> mod, n |-> n, hook |-> hook]

\* the keys guards write into executionContext.data; a key not written reads
\* undefined, in the data bag and on the request context alike
Undefined == "undefined"
DataKeys == {"user", "role"}
NoData == [k \in DataKeys |-> Undefined]

\* the error a rejected bootstrap() carries: what threw, and the class named
NoError == [kind |-> "none", cls |-> ""]
Error(kind, cls) == [kind |-> kind, cls |-> cls]

\* the factory, container, application and process right after construction
InitialOptions ==
  [verbose |-> TRUE, ignoredPaths |-> DEFAULT_IGNORED_PATHS,
   enableErrorHandling |-> TRUE, errorHandler |-> Absent]

\* a guard list that is not there (undefined)
NoGuardList == <<Undefined>>
Handlers == {"list", "create"}
NoDecorators ==
  [program |-> <<>>, pc |-> 1, routes |-> <<>>, meta |-> [h \in Handlers |-> NoGuardList]]

\* no call of the error handler
NoErrorCall == [pc |-> "none"]

InitFactory ==
  /\ resets = <<>>
  /\ deco = NoDecorators
  /\ err = NoErrorCall
  /\ reqs = EmptyBag
  /\ registeredModules = {}
  /\ registeredInstances = <<>>
  /\ isShuttingDown = FALSE
  /\ mainApp = "null"
  /\ jwtPluginConfig = "null"
  /\ options = InitialOptions
  /\ container = [reg |-> [c \in Classes |->
                             IF ClassLifetime[c] = "singleton" THEN "singleton" ELSE "none"],
                  inst |-> [c \in Classes |-> 0]]
  /\ app = [routes |-> <<>>, plugins |-> <<>>, onError |-> <<>>]
  /\ proc = [handlers |-> 0, state |-> "running", exitCode |-> -1]
  /\ boot = [pc |-> "idle", stack |-> <<>>, i |-> 0, awaiting |-> FALSE,
             opts |-> NoOptions, error |-> NoError]
  /\ shut = [pc |-> "idle", signal |-> "none", i |-> 0, awaiting |-> FALSE,
             late |-> FALSE]
  /\ nextId = 1
  /\ signalsSent = 0
  /\ trace = <<>>

Init ==
  /\ imports \in ImportGraphs
  /\ providers = DistinctProviders
  /\ plugins = DeclaredPlugins
  /\ hooksOf \in HookProfiles
  /\ stalled = {}
  /\ paramTypes = NoParameters
  /\ guardsOf = NoGuards
  /\ decorated = Modules
  /\ faulty = {}
  /\ InitFactory

\* ------------------------------------------------------ container, registry
\* container.isRegistered / container.register(cls, {useClass: cls})
ContainerRegister(cont, cls) ==
  IF cont.reg[cls] = "none" THEN [cont EXCEPT !.reg[cls] = "transient"] ELSE cont

\* container.resolve(cls): the cached instance of a singleton, else a new one
ResolveIsNew(cont, cls) == ~(cont.reg[cls] = "singleton" /\ cont.inst[cls] # 0)
ResolveId(cont, cls, fresh) == IF ResolveIsNew(cont, cls) THEN fresh ELSE cont.inst[cls]
ContainerResolve(cont, cls, fresh) ==
  IF cont.reg[cls] = "singleton" /\ cont.inst[cls] = 0
  THEN [cont EXCEPT !.inst[cls] = fresh] ELSE cont

\* container.resolve(cls) throws: a new instance is needed and the class's
\* constructor throws
ConstructionThrows(cont, cls) == ResolveIsNew(cont, cls) /\ cls \in faulty

\* container.resolve(cls) building a new instance resolves the constructor
\* parameter types first, in order, each through container.resolve: cont and
\* fresh after them, and the instances handed to the constructor
RECURSIVE Inject(_, _, _), InjectAll(_, _, _, _, _)
InjectAll(cont, fresh, deps, k, ids) ==
  IF k > Len(deps) THEN [cont |-> cont, fresh |-> fresh, ids |-> ids]
  ELSE LET dep == deps[k]
           inner == Inject(cont, fresh, dep)
           id == ResolveId(inner.cont, dep, inner.fresh)
       IN InjectAll(ContainerResolve(inner.cont, dep, inner.fresh),
                    IF ResolveIsNew(inner.cont, dep) THEN inner.fresh + 1 ELSE inner.fresh,
                    deps, k + 1, Append(ids, [cls |-> dep, id |-> id]))
Inject(cont, fresh, cls) ==
  IF ResolveIsNew(cont, cls) THEN InjectAll(cont, fresh, paramTypes[cls], 1, <<>>)
  ELSE [cont |-> cont, fresh |-> fresh, ids |-> <<>>]

\* the injections of one resolution, as history
InjectEvents(ids, cls) ==
  [k \in DOMAIN ids |-> [ev |-> "inject", cls |-> ids[k].cls, mod |-> cls, n |-> ids[k].id,
                          hook |-> ""]]

\* mutant: the record is put in front of the others
RegisterInstanceFront(regs, cls, id, type, moduleClass) ==
  <<[instance |-> [cls |-> cls, id |-> id], type |-> type, moduleClass |-> moduleClass]>>
  \o regs

\* mutant: the record is not kept
RegisterInstanceNone(regs, cls, id, type, moduleClass) == regs

\* registerInstance: push {instance, type, moduleClass}
RegisterInstance(regs, cls, id, type, moduleClass) ==
  Append(regs, [instance |-> [cls |-> cls, id |-> id], type |-> type,
                moduleClass |-> moduleClass])

\* ----------------------------------------------------------------- bootstrap
Alive == proc.state = "running"

\* mutant: the caller's ignoredPaths replace the list
MergeOptionsReplace(cur, opts) ==
  [verbose |-> cur.verbose,
   ignoredPaths |-> IF "ignoredPaths" \in opts.has THEN opts.ignoredPaths
                    ELSE cur.ignoredPaths,
   enableErrorHandling |-> IF "enableErrorHandling" \in opts.has
                           THEN opts.enableErrorHandling ELSE cur.enableErrorHandling,
   errorHandler |-> IF "errorHandler" \in opts.has THEN opts.errorHandler
                    ELSE cur.errorHandler]

\* bootstrap(): merge the options, setupErrorHandling, call registerModule(root)
MergeOptions(cur, opts) ==
  [verbose |-> cur.verbose,
   ignoredPaths |-> DEFAULT_IGNORED_PATHS \o
                    (IF "ignoredPaths" \in opts.has THEN opts.ignoredPaths ELSE <<>>),
   enableErrorHandling |-> IF "enableErrorHandling" \in opts.has
                           THEN opts.enableErrorHandling ELSE cur.enableErrorHandling,
   errorHandler |-> IF "errorHandler" \in opts.has THEN opts.errorHandler
                    ELSE cur.errorHandler]

\* mutant: the interceptor always delegates to the default handler
SetupErrorHandlingDefaultOnly(a, opts) ==
  IF opts.enableErrorHandling THEN [a EXCEPT !.onError = Append(@, "default")] ELSE a

\* setupErrorHandling: nothing when error handling is disabled, else one
\* app.onError interceptor delegating to options.errorHandler or, without
\* one, to the default handler
SetupErrorHandling(a, opts) ==
  IF opts.enableErrorHandling
  THEN [a EXCEPT !.onError =
          Append(@, IF opts.errorHandler # Absent THEN opts.errorHandler ELSE "default")]
  ELSE a

Frame(mod, pc) == [mod |-> mod, pc |-> pc, i |-> 1]

\* mutant: the signal handlers are installed as bootstrap starts
BootstrapHandlersFirst ==
  /\ Alive
  /\ boot.pc = "idle"
  /\ proc' = [proc EXCEPT !.handlers = @ + 1]
  /\ \E opts \in OptionInputs :
       /\ options' = MergeOptions(options, opts)
       /\ app' = SetupErrorHandling(app, options')
       /\ boot' = [boot EXCEPT !.pc = "register", !.opts = opts, !.error = NoError,
                                !.stack = <<Frame(RootModule, "enter")>>]
  /\ UNCHANGED <<progVars, reqs, registeredModules, registeredInstances, isShuttingDown,
                 mainApp, jwtPluginConfig, container, shut, nextId, signalsSent, trace>>

Bootstrap ==
  /\ Alive
  /\ boot.pc = "idle"
  /\ \E opts \in OptionInputs :
       /\ options' = MergeOptions(options, opts)
       /\ app' = SetupErrorHandling(app, options')
       /\ boot' = [boot EXCEPT !.pc = "register", !.opts = opts, !.error = NoError,
                                !.stack = <<Frame(RootModule, "enter")>>]
  /\ UNCHANGED <<progVars, reqs, registeredModules, registeredInstances, isShuttingDown,
                 mainApp, jwtPluginConfig, container, proc, shut, nextId,
                 signalsSent, trace>>

\* ------------------------------------------------------------ registerModule
Registering == Alive /\ boot.pc = "register" /\ boot.stack # <<>>
Top == boot.stack[Len(boot.stack)]
Depth == Len(boot.stack)

\* the stack with its top frame replaced / removed / a callee pushed
SetTop(f) == [boot.stack EXCEPT ![Depth] = f]
Pop == SubSeq(boot.stack, 1, Depth - 1)

\* the call returns: the caller continues, or registerModule(root) has
\* resolved and bootstrap goes on to the onModuleInit phase
Return ==
  IF Depth = 1
  THEN [boot EXCEPT !.pc = InitHooks[1], !.stack = <<>>, !.i = 1, !.awaiting = FALSE]
  ELSE [boot EXCEPT !.stack = Pop]

\* Reflect.getMetadata(MODULE_KEY, moduleClass) is defined
HasMetadataAlways(mod) == TRUE
HasMetadata(mod) == mod \in decorated

\* an exception thrown inside registerModule leaves every pending
\* registerModule call and rejects bootstrap()
Reject(kind, cls) ==
  [boot EXCEPT !.pc = "rejected", !.stack = <<>>, !.awaiting = FALSE,
               !.error = Error(kind, cls)]

\* mutant: registerModule without the check of the registered-module set
RegisterModuleEnterNoCheck ==
  /\ Registering
  /\ Top.pc = "enter"
  /\ mainApp' = IF mainApp = "null" THEN "app" ELSE mainApp
  /\ registeredModules' = registeredModules \cup {Top.mod}
  /\ trace' = Append(trace, Event("add", Top.mod, Top.mod, 0, ""))
  /\ boot' = [boot EXCEPT !.stack = SetTop([Top EXCEPT !.pc = "imports"])]
  /\ UNCHANGED <<progVars, reqs, registeredInstances, isShuttingDown, jwtPluginConfig,
                 options, container, app, proc, shut, nextId, signalsSent>>

\* entry of registerModule: the idempotence check, mainApp, the set insertion
\* and the descriptor check
RegisterModuleEnter ==
  /\ Registering
  /\ Top.pc = "enter"
  /\ IF Top.mod \in registeredModules
     THEN /\ boot' = Return
          /\ UNCHANGED <<registeredModules, mainApp, trace>>
     ELSE /\ mainApp' = IF mainApp = "null" THEN "app" ELSE mainApp
          /\ registeredModules' = registeredModules \cup {Top.mod}
          /\ trace' = Append(trace, Event("add", Top.mod, Top.mod, 0, ""))
          /\ IF HasMetadata(Top.mod)
             THEN boot' = [boot EXCEPT !.stack = SetTop([Top EXCEPT !.pc = "imports"])]
             ELSE boot' = Reject("is not a valid module", Top.mod)
  /\ UNCHANGED <<progVars, reqs, registeredInstances, isShuttingDown, jwtPluginConfig,
                 options, container, app, proc, shut, nextId, signalsSent>>

\* mutant: the imported modules are not registered before the providers
RegisterModuleImportSkipped ==
  /\ Registering
  /\ Top.pc = "imports"
  /\ boot' = [boot EXCEPT !.stack = SetTop([Top EXCEPT !.pc = "providers", !.i = 1])]
  /\ UNCHANGED <<progVars, reqs, factoryVars, container, app, proc, shut, nextId,
                 signalsSent, trace>>

\* step 1: for (const importedModule of metadata.imports) await registerModule
RegisterModuleImport ==
  /\ Registering
  /\ Top.pc = "imports"
  /\ IF Top.i <= Len(imports[Top.mod])
     THEN boot' = [boot EXCEPT !.stack =
                     Append(SetTop([Top EXCEPT !.i = @ + 1]),
                            Frame(imports[Top.mod][Top.i], "enter"))]
     ELSE boot' = [boot EXCEPT !.stack = SetTop([Top EXCEPT !.pc = "providers", !.i = 1])]
  /\ UNCHANGED <<progVars, reqs, factoryVars, container, app, proc, shut, nextId,
                 signalsSent, trace>>

\* step 2: metadata.providers.forEach: register, resolve, registerInstance
RegisterModuleProvider ==
  /\ Registering
  /\ Top.pc = "providers"
  /\ IF Top.i <= Len(ModuleProviders[Top.mod])
     THEN LET provider == ModuleProviders[Top.mod][Top.i]
              cont == ContainerRegister(container, provider)
              inj == Inject(cont, nextId, provider)
              id == ResolveId(inj.cont, provider, inj.fresh)
          IN IF ConstructionThrows(cont, provider)
             THEN /\ container' = cont
                  /\ boot' = Reject("constructor", provider)
                  /\ UNCHANGED <<nextId, registeredInstances, trace>>
             ELSE
             /\ container' = ContainerResolve(inj.cont, provider, inj.fresh)
             /\ nextId' = IF ResolveIsNew(cont, provider) THEN inj.fresh + 1 ELSE nextId
             /\ registeredInstances' =
                  RegisterInstance(registeredInstances, provider, id, "provider", provider)
             /\ trace' = trace \o InjectEvents(inj.ids, provider) \o
                  <<Event("resolve", provider, Top.mod, id, ""),
                    Event("record", provider, Top.mod, Len(registeredInstances) + 1, "")>>
             /\ boot' = [boot EXCEPT !.stack = SetTop([Top EXCEPT !.i = @ + 1])]
     ELSE /\ boot' = [boot EXCEPT !.stack = SetTop([Top EXCEPT !.pc = "plugins", !.i = 1])]
          /\ UNCHANGED <<container, nextId, registeredInstances, trace>>
  /\ UNCHANGED <<progVars, reqs, registeredModules, isShuttingDown, mainApp, jwtPluginConfig,
                 options, app, proc, shut, signalsSent>>

\* step 3: await registerJWT / registerCORS / registerCron, in that order
RegisterModulePlugin ==
  /\ Registering
  /\ Top.pc = "plugins"
  /\ IF Top.i <= Len(PluginOrder)
     THEN LET plugin == PluginOrder[Top.i]
          IN IF plugin \in ModulePlugins[Top.mod]
             THEN IF plugin \in faulty
                  THEN /\ boot' = Reject("plugin", plugin)
                       /\ UNCHANGED <<app, jwtPluginConfig, trace>>
                  ELSE /\ app' = [app EXCEPT !.plugins = Append(@, plugin)]
                       /\ jwtPluginConfig' =
                            IF plugin = "jwt" THEN Top.mod ELSE jwtPluginConfig
                       /\ trace' = Append(trace, Event("plugin", plugin, Top.mod, 0, ""))
                       /\ boot' = [boot EXCEPT !.stack = SetTop([Top EXCEPT !.i = @ + 1])]
             ELSE /\ boot' = [boot EXCEPT !.stack = SetTop([Top EXCEPT !.i = @ + 1])]
                  /\ UNCHANGED <<app, jwtPluginConfig, trace>>
     ELSE /\ boot' = [boot EXCEPT !.stack = SetTop([Top EXCEPT !.pc = "controllers", !.i = 1])]
          /\ UNCHANGED <<app, jwtPluginConfig, trace>>
  /\ UNCHANGED <<progVars, reqs, registeredModules, registeredInstances, isShuttingDown,
                 mainApp, options, container, proc, shut, nextId, signalsSent>>

\* mutant: a controller plugin without routes
ControllerPluginEmpty(controllerClass, id, jwt) == <<>>

\* createControllerPlugin: the routes of a controller, mounted on its own
\* plugin with the JWT capability attached when a configuration is stored
ControllerPlugin(controllerClass, id, jwt) ==
  [k \in DOMAIN RoutesOf[controllerClass] |->
     [method |-> RoutesOf[controllerClass][k].method,
      path |-> RoutesOf[controllerClass][k].path,
      handlerName |-> RoutesOf[controllerClass][k].handlerName,
      controller |-> controllerClass, instance |-> id, jwt |-> jwt,
      guards |-> guardsOf[RoutesOf[controllerClass][k].handlerName]]]

\* step 4: for each controller, createControllerPlugin and app.use
RegisterModuleController ==
  /\ Registering
  /\ Top.pc = "controllers"
  /\ IF Top.i <= Len(ModuleControllers[Top.mod])
     THEN LET controllerClass == ModuleControllers[Top.mod][Top.i]
              cont == ContainerRegister(container, controllerClass)
              inj == Inject(cont, nextId, controllerClass)
              id == ResolveId(inj.cont, controllerClass, inj.fresh)
          IN IF ConstructionThrows(cont, controllerClass)
             THEN /\ container' = cont
                  /\ boot' = Reject("constructor", controllerClass)
                  /\ UNCHANGED <<nextId, registeredInstances, app, trace>>
             ELSE
             /\ container' = ContainerResolve(inj.cont, controllerClass, inj.fresh)
             /\ nextId' = IF ResolveIsNew(cont, controllerClass) THEN inj.fresh + 1 ELSE nextId
             /\ registeredInstances' =
                  RegisterInstance(registeredInstances, controllerClass, id,
                                   "controller", controllerClass)
             /\ app' = [app EXCEPT !.routes =
                          @ \o ControllerPlugin(controllerClass, id, jwtPluginConfig)]
             /\ trace' = trace \o InjectEvents(inj.ids, controllerClass) \o
                  <<Event("resolve", controllerClass, Top.mod, id, ""),
                    Event("record", controllerClass, Top.mod, Len(registeredInstances) + 1, "")>>
             /\ boot' = [boot EXCEPT !.stack = SetTop([Top EXCEPT !.i = @ + 1])]
     ELSE /\ boot' = [boot EXCEPT !.stack = SetTop([Top EXCEPT !.pc = "instance", !.i = 1])]
          /\ UNCHANGED <<container, nextId, registeredInstances, app, trace>>
  /\ UNCHANGED <<progVars, reqs, registeredModules, isShuttingDown, mainApp, jwtPluginConfig,
                 options, proc, shut, signalsSent>>

\* step 5: new moduleClass(), registerInstance(.., 'module', moduleClass), return
RegisterModuleInstance ==
  /\ Registering
  /\ Top.pc = "instance"
  /\ IF Top.mod \in faulty
     THEN /\ boot' = Reject("constructor", Top.mod)
          /\ UNCHANGED <<registeredInstances, nextId, trace>>
     ELSE /\ registeredInstances' =
               RegisterInstance(registeredInstances, Top.mod, nextId, "module", Top.mod)
          /\ nextId' = nextId + 1
          /\ trace' = Append(trace, Event("record", Top.mod, Top.mod,
                                          Len(registeredInstances) + 1, ""))
          /\ boot' = Return
  /\ UNCHANGED <<progVars, reqs, registeredModules, isShuttingDown, mainApp, jwtPluginConfig,
                 options, container, app, proc, shut, signalsSent>>

\* ---------------------------------------------------------- lifecycle hooks
\* hasOnModuleInit .. hasOnApplicationShutdown: the instance exposes a
\* function of that name
HasHook(instance, hookName) == hookName \in hooksOf[instance.cls]

\* the records at or after position from whose instance implements the hook
Implementers(regs, hookName, from) ==
  {k \in from..Len(regs) : HasHook(regs[k].instance, hookName)}

SetMin(S) == CHOOSE x \in S : \A y \in S : x <= y

SetMax(S) == CHOOSE x \in S : \A y \in S : x >= y

\* mutant: the loop runs over the registry from its end
NextHookIndexLast(regs, hookName, from) ==
  IF Implementers(regs, hookName, from) = {} THEN 0
  ELSE SetMax(Implementers(regs, hookName, from))

\* the loop of callLifecycleHook / callLifecycleHookWithSignal: the position
\* of the next record the hook is called on, 0 when the loop is over
NextHookIndex(regs, hookName, from) ==
  IF Implementers(regs, hookName, from) = {} THEN 0
  ELSE SetMin(Implementers(regs, hookName, from))

\* the phase that follows phase pc in the sequence order, last after the end
PhaseAfter(order, pc, last) ==
  LET k == CHOOSE x \in DOMAIN order : order[x] = pc
  IN IF k < Len(order) THEN order[k + 1] ELSE last

\* what a hook call can do once started: settle, or throw / reject
HookOutcomes == {"ok", "throw"}

\* bootstrap phases 4 and 5: callLifecycleHook('onModuleInit') and then
\* callLifecycleHook('onApplicationBootstrap'); the loop reaches the next
\* implementing record and awaits its hook, or ends
InitPhase == Alive /\ boot.pc \in SeqRange(InitHooks)

BootstrapHookStart ==
  /\ InitPhase
  /\ ~boot.awaiting
  /\ LET j == NextHookIndex(registeredInstances, boot.pc, boot.i)
     IN IF j # 0
        THEN /\ boot' = [boot EXCEPT !.i = j, !.awaiting = TRUE]
             /\ trace' = Append(trace, Event("hookStart", registeredInstances[j].instance.cls,
                                             "", j, boot.pc))
        ELSE /\ boot' = [boot EXCEPT !.i = 1,
                           !.pc = PhaseAfter(InitHooks, boot.pc, "setupShutdownHandlers")]
             /\ UNCHANGED trace
  /\ UNCHANGED <<progVars, reqs, factoryVars, container, app, proc, shut, nextId, signalsSent>>

\* mutant: a throwing init hook is swallowed and the loop goes on
BootstrapHookSettleSwallowed ==
  /\ InitPhase
  /\ boot.awaiting
  /\ \E outcome \in HookOutcomes :
       /\ trace' = Append(trace, Event("hookEnd", registeredInstances[boot.i].instance.cls,
                                       outcome, boot.i, boot.pc))
       /\ boot' = [boot EXCEPT !.i = @ + 1, !.awaiting = FALSE]
  /\ UNCHANGED <<progVars, reqs, factoryVars, container, app, proc, shut, nextId, signalsSent>>

\* the awaited hook settles; a throwing hook rejects bootstrap
BootstrapHookSettle ==
  /\ InitPhase
  /\ boot.awaiting
  /\ \E outcome \in HookOutcomes :
       /\ trace' = Append(trace, Event("hookEnd", registeredInstances[boot.i].instance.cls,
                                       outcome, boot.i, boot.pc))
       /\ boot' = IF outcome = "ok"
                  THEN [boot EXCEPT !.i = @ + 1, !.awaiting = FALSE]
                  ELSE [boot EXCEPT !.pc = "rejected", !.awaiting = FALSE,
                                    !.error = Error(boot.pc,
                                                    registeredInstances[boot.i].instance.cls)]
  /\ UNCHANGED <<progVars, reqs, factoryVars, container, app, proc, shut, nextId, signalsSent>>

\* bootstrap phase 6: setupShutdownHandlers installs the SIGINT and SIGTERM
\* handlers, and bootstrap resolves
SetupShutdownHandlers ==
  /\ Alive
  /\ boot.pc = "setupShutdownHandlers"
  /\ proc' = [proc EXCEPT !.handlers = @ + 1]
  /\ boot' = [boot EXCEPT !.pc = "resolved"]
  /\ UNCHANGED <<progVars, reqs, factoryVars, container, app, shut, nextId, signalsSent, trace>>

\* ------------------------------------------------------------------ shutdown
\* mutant: shutdown without the isShuttingDown latch
SignalNoLatch ==
  /\ Alive
  /\ signalsSent < MaxSignals
  /\ signalsSent' = signalsSent + 1
  /\ \E signal \in Signals :
       IF proc.handlers = 0
       THEN /\ proc' = [proc EXCEPT !.state = "killed"]
            /\ UNCHANGED <<isShuttingDown, shut, trace>>
       ELSE /\ isShuttingDown' = TRUE
            /\ shut' = [pc |-> ShutdownHooks[1], signal |-> signal, i |-> 1,
                        awaiting |-> FALSE, late |-> shut.awaiting]
            /\ trace' = Append(trace, Event("shutdown", "", signal, 0, ""))
            /\ UNCHANGED proc
  /\ UNCHANGED <<progVars, reqs, registeredModules, registeredInstances, mainApp,
                 jwtPluginConfig, options, container, app, boot, nextId>>

\* a termination signal is delivered: every installed handler calls
\* shutdown(signal); the first call that finds the latch unset sets it and
\* starts the sequence, every other call returns at once.  Without a handler
\* the signal has its default disposition and ends the process.
Signal ==
  /\ Alive
  /\ signalsSent < MaxSignals
  /\ signalsSent' = signalsSent + 1
  /\ \E signal \in Signals :
       IF proc.handlers = 0
       THEN /\ proc' = [proc EXCEPT !.state = "killed"]
            /\ UNCHANGED <<isShuttingDown, shut, trace>>
       ELSE IF isShuttingDown
            THEN /\ shut' = [shut EXCEPT !.late = @ \/ shut.awaiting]
                 /\ UNCHANGED <<isShuttingDown, proc, trace>>
            ELSE /\ isShuttingDown' = TRUE
                 /\ shut' = [pc |-> ShutdownHooks[1], signal |-> signal, i |-> 1,
                             awaiting |-> FALSE, late |-> FALSE]
                 /\ trace' = Append(trace, Event("shutdown", "", signal, 0, ""))
                 /\ UNCHANGED proc
  /\ UNCHANGED <<progVars, reqs, registeredModules, registeredInstances, mainApp,
                 jwtPluginConfig, options, container, app, boot, nextId>>

ShutdownPhase == Alive /\ shut.pc \in SeqRange(ShutdownHooks)

\* the loops of the three shutdown phases
ShutdownHookStart ==
  /\ ShutdownPhase
  /\ ~shut.awaiting
  /\ LET j == NextHookIndex(registeredInstances, shut.pc, shut.i)
     IN IF j # 0
        THEN /\ shut' = [shut EXCEPT !.i = j, !.awaiting = TRUE]
             /\ trace' = Append(trace, Event("hookStart", registeredInstances[j].instance.cls,
                                             IF shut.pc = "onModuleDestroy" THEN ""
                                             ELSE shut.signal, j, shut.pc))
        ELSE /\ shut' = [shut EXCEPT !.i = 1, !.pc = PhaseAfter(ShutdownHooks, shut.pc, "exit")]
             /\ UNCHANGED trace
  /\ UNCHANGED <<progVars, reqs, factoryVars, container, app, proc, boot, nextId, signalsSent>>

\* the shutdown sequence awaits a hook whose promise never settles
Hung ==
  /\ shut.pc \in SeqRange(ShutdownHooks)
  /\ shut.awaiting
  /\ <<registeredInstances[shut.i].instance.cls, shut.pc>> \in stalled

\* mutant: a throwing shutdown hook is swallowed and the sequence goes on
ShutdownHookSettleSwallowed ==
  /\ ShutdownPhase
  /\ shut.awaiting
  /\ ~Hung
  /\ \E outcome \in HookOutcomes :
       /\ shut' = [shut EXCEPT !.i = @ + 1, !.awaiting = FALSE]
       /\ trace' = Append(trace,
            Event("hookEnd", registeredInstances[shut.i].instance.cls,
                  outcome, shut.i, shut.pc))
  /\ UNCHANGED <<progVars, reqs, factoryVars, container, app, proc, boot, nextId, signalsSent>>

\* the awaited shutdown hook settles, unless its promise never does; a
\* throwing hook is caught by shutdown, which exits with code 1
ShutdownHookSettle ==
  /\ ShutdownPhase
  /\ shut.awaiting
  /\ ~Hung
  /\ \E outcome \in HookOutcomes :
       /\ IF outcome = "ok"
          THEN /\ shut' = [shut EXCEPT !.i = @ + 1, !.awaiting = FALSE]
               /\ trace' = Append(trace,
                    Event("hookEnd", registeredInstances[shut.i].instance.cls,
                          outcome, shut.i, shut.pc))
               /\ UNCHANGED proc
          ELSE /\ shut' = [shut EXCEPT !.pc = "failed", !.awaiting = FALSE]
               /\ trace' = trace \o
                    <<Event("hookEnd", registeredInstances[shut.i].instance.cls,
                            outcome, shut.i, shut.pc),
                      Event("exit", "", "", 1, "")>>
               /\ proc' = [proc EXCEPT !.state = "exited", !.exitCode = 1]
  /\ UNCHANGED <<progVars, reqs, factoryVars, container, app, boot, nextId, signalsSent>>

\* process.exit(0) after the last phase
ShutdownExit ==
  /\ Alive
  /\ shut.pc = "exit"
  /\ shut' = [shut EXCEPT !.pc = "done"]
  /\ proc' = [proc EXCEPT !.state = "exited", !.exitCode = 0]
  /\ trace' = Append(trace, Event("exit", "", "", 0, ""))
  /\ UNCHANGED <<progVars, reqs, factoryVars, container, app, boot, nextId, signalsSent>>

\* --------------------------------------------------------------------- reset
\* the records of a registry without the identity of their instances
Shape(regs) ==
  [k \in DOMAIN regs |-> [cls |-> regs[k].instance.cls, type |-> regs[k].type,
                           moduleClass |-> regs[k].moduleClass]]

\* reset(), called between two bootstrap() calls: the module set, the registry,
\* the latch, mainApp and the stored JWT configuration are cleared, and
\* container.clearInstances() drops the cached singletons; the history starts
\* again, and what the finished run left is kept in resets
Reset ==
  /\ Alive
  /\ boot.pc \in {"resolved", "rejected"}
  /\ Len(resets) < MaxResets
  /\ resets' = Append(resets, [outcome |-> boot.pc, modules |-> registeredModules,
                                registry |-> Shape(registeredInstances),
                                options |-> options])
  /\ registeredModules' = {}
  /\ registeredInstances' = <<>>
  /\ isShuttingDown' = FALSE
  /\ mainApp' = "null"
  /\ jwtPluginConfig' = "null"
  /\ container' = [container EXCEPT !.inst = [c \in Classes |-> 0]]
  /\ boot' = [pc |-> "idle", stack |-> <<>>, i |-> 0, awaiting |-> FALSE,
              opts |-> NoOptions, error |-> NoError]
  /\ trace' = <<>>
  /\ UNCHANGED <<imports, providers, plugins, hooksOf, guardsOf, decorated, faulty, stalled,
                 paramTypes, deco, err, reqs,
                 options, app, proc, shut, nextId, signalsSent>>

\* ------------------------------------------------------------ route handler
\* what one canActivate call may do before it settles: write keys of the data
\* bag (data[k] is the value written to key k, Undefined where k is left
\* alone), write context.set.status (0: left alone), then return true or
\* false, or throw
NoWrite == [data |-> NoData, status |-> 0]
GuardBehaviours ==
  {[outcome |-> "true", data |-> NoData, status |-> 0],
   [outcome |-> "true", data |-> [NoData EXCEPT !["user"] = "X"], status |-> 403],
   [outcome |-> "true", data |-> [user |-> "Z", role |-> "Y"], status |-> 0],
   [outcome |-> "false", data |-> NoData, status |-> 0],
   [outcome |-> "false", data |-> NoData, status |-> 403],
   [outcome |-> "throw", data |-> NoData, status |-> 0]}

\* response bodies, as the list of their keys and values
NoBody == <<>>
HandlerResult == <<"result">>
Unauthorized == <<"error", "Unauthorized">>

\* mutant: the data bag of a new request is the one of a request in flight
NewRequestShared(k) ==
  [route |-> k, pc |-> "start", gi |-> 0, status |-> 0,
   data |-> IF BagToSet(reqs) = {} THEN NoData ELSE (CHOOSE q \in BagToSet(reqs) : TRUE).data,
   context |-> NoData, calls |-> <<>>, handlerCalls |-> 0, body |-> NoBody]

\* a request as it reaches routeHandler: set.status unset (0), no guard data
NewRequest(k) ==
  [route |-> k, pc |-> "start", gi |-> 0, status |-> 0, data |-> NoData,
   context |-> NoData, calls |-> <<>>, handlerCalls |-> 0, body |-> NoBody]

InFlight == BagToSet(reqs)
Replace(q, q2) == (reqs (-) SetToBag({q})) (+) SetToBag({q2})
GuardsOfRequest(q) == app.routes[q.route].guards

\* the application serves the routes mounted on it once bootstrap has resolved
Serving == Alive /\ boot.pc = "resolved"

RequestArrives ==
  /\ Serving
  /\ BagCardinality(reqs) < MaxRequests
  /\ \E k \in DOMAIN app.routes : reqs' = reqs (+) SetToBag({NewRequest(k)})
  /\ UNCHANGED <<progVars, factoryVars, container, app, proc, boot, shut, nextId,
                 signalsSent, trace>>

\* mutant: the handler is called a second time
InvokeHandlerTwice(q) ==
  [q EXCEPT !.pc = "done", !.handlerCalls = q.handlerCalls + 2, !.body = HandlerResult]

\* return handler(context)
InvokeHandler(q) ==
  [q EXCEPT !.pc = "done", !.handlerCalls = q.handlerCalls + 1, !.body = HandlerResult]

\* one turn of the guard loop up to its await: register the guard class if it
\* is not registered, resolve it, call canActivate(executionContext)
CallGuard(q, i) ==
  [q EXCEPT !.pc = "awaitGuard", !.gi = i,
            !.calls = Append(q.calls, [guard |-> GuardsOfRequest(q)[i], seen |-> q.data,
                                       outcome |-> "pending", wrote |-> NoWrite])]

\* routeHandler up to its first await: no guards, the handler is called with
\* the context as it came; else executionContext.data = {} and the first guard
RouteHandlerStart ==
  /\ Alive
  /\ \E q \in InFlight :
       /\ q.pc = "start"
       /\ IF Len(GuardsOfRequest(q)) = 0
          THEN /\ reqs' = Replace(q, InvokeHandler(q))
               /\ UNCHANGED container
          ELSE /\ reqs' = Replace(q, CallGuard(q, 1))
               /\ container' = ContainerRegister(container, GuardsOfRequest(q)[1])
  /\ UNCHANGED <<progVars, factoryVars, app, proc, boot, shut, nextId, signalsSent, trace>>

\* the data bag after a guard's writes
Written(data, writes) ==
  [k \in DataKeys |-> IF writes[k] # Undefined THEN writes[k] ELSE data[k]]

\* if (!context.set.status) context.set.status = 401
RejectStatus(status) == IF status = 0 THEN 401 ELSE status

\* Object.assign(context, executionContext.data): the keys of the bag
MergeDataNone(context, data) == context
MergeData(context, data) ==
  [k \in DataKeys |-> IF data[k] # Undefined THEN data[k] ELSE context[k]]

\* if (!canActivate)
GuardRejectsNever(outcome) == FALSE
GuardRejects(outcome) == outcome = "false"

\* ------------------------------------------------------------ error handler
\* strings the handler builds are lists of their pieces, concatenated as the
\* code concatenates them: parts.join(sep)
RECURSIVE JoinWith(_, _)
JoinWith(parts, sep) ==
  IF parts = <<>> THEN <<>>
  ELSE IF Len(parts) = 1 THEN parts[1]
  ELSE parts[1] \o sep \o JoinWith(Tail(parts), sep)

\* one entry of the errors list of a validation error: its path (a list of
\* keys, possibly empty; absent; or a string, which has no join) and message
Issues ==
  {[path |-> p, message |-> m] :
     p \in {[kind |-> "list", list |-> <<"email">>],
            [kind |-> "list", list |-> <<"user", "name">>],
            [kind |-> "list", list |-> <<>>],
            [kind |-> "absent", list |-> <<>>],
            [kind |-> "string", list |-> <<"/email">>]},
     m \in {"Invalid email", "Required"}}
IssueLists == UNION {[1..n -> Issues] : n \in 0..MaxIssues}

\* a JSON value that is an array, one that is something else, none
JsonList(l) == [kind |-> "list", list |-> l]
JsonOther == [kind |-> "other", list |-> <<>>]
JsonAbsent == [kind |-> "absent", list |-> <<>>]

\* what JSON.parse(error.message) gives: a SyntaxError, null, a primitive, or
\* an object with its errors, property and message fields
NotAnObject(kind) ==
  [kind |-> kind, errors |-> JsonAbsent, property |-> Absent, message |-> Absent]
ParsedMessages ==
  {NotAnObject(k) : k \in {"SyntaxError", "null", "primitive"}}
  \cup {[kind |-> "object", errors |-> JsonList(l), property |-> pr, message |-> Absent] :
          l \in IssueLists, pr \in {Absent, "body"}}
  \cup {[kind |-> "object", errors |-> e, property |-> Absent, message |-> m] :
          e \in {JsonOther, JsonAbsent}, m \in {Absent, "Bad request"}}

\* the error signals an interceptor may be given: the code, the error (its
\* message as text and as JSON.parse reads it), the request path and method
ErrorCodes == {"NOT_FOUND", "VALIDATION", "UNKNOWN", "INTERNAL_SERVER_ERROR"}
RequestPaths == {"/favicon.ico", "/health", "/users"}
RawMessage(parsed) == IF parsed.kind = "SyntaxError" THEN <<"boom">> ELSE <<"{json}">>
ErrorSignals ==
  {[code |-> c, message |-> RawMessage(pm), parsed |-> pm, path |-> pa, method |-> "GET"] :
     c \in ErrorCodes, pm \in ParsedMessages, pa \in RequestPaths}

\* the error a throwing guard raises: a plain Error, which reaches the
\* interceptors with the code UNKNOWN
GuardError ==
  [code |-> "UNKNOWN", message |-> <<"guard failed">>, parsed |-> NotAnObject("SyntaxError"),
   path |-> "", method |-> "GET"]

\* mutant: no path is an ignored path
IsIgnoredNever(path, ignoredPaths) == FALSE

\* ignoredPaths.includes(path)
IsIgnored(path, ignoredPaths) == path \in SeqRange(ignoredPaths)

\* mutant: the field is the joined path alone
FieldOfPathOnly(e, details) == JoinWith([i \in DOMAIN e.path.list |-> <<e.path.list[i]>>], <<".">>)

\* e.path?.join('.') || validationDetails.property || 'unknown'
FieldOf(e, details) ==
  IF e.path.kind = "list" /\ e.path.list # <<>>
  THEN JoinWith([i \in DOMAIN e.path.list |-> <<e.path.list[i]>>], <<".">>)
  ELSE IF details.property # Absent THEN <<details.property>>
  ELSE <<"unknown">>

\* the try block of the VALIDATION branch: the message it ends with. A throw
\* inside it (JSON.parse, reading a field of null, join on a path that is no
\* array) is caught and leaves the original message.
ErrorMessage(error) ==
  LET details == error.parsed
  IN IF details.kind # "object" THEN error.message
     ELSE IF details.errors.kind = "list"
     THEN IF \E i \in DOMAIN details.errors.list : details.errors.list[i].path.kind = "string"
          THEN error.message
          ELSE JoinWith([i \in DOMAIN details.errors.list |->
                           FieldOf(details.errors.list[i], details) \o
                           <<": ", details.errors.list[i].message>>], <<", ">>)
     ELSE IF details.message # Absent THEN <<details.message>>
     ELSE error.message

\* validationDetails?.errors || []
Details(error) ==
  IF error.parsed.kind = "object" /\ error.parsed.errors.kind # "absent"
  THEN error.parsed.errors
  ELSE JsonList(<<>>)

Log(level, context) == [level |-> level, context |-> context]

\* defaultErrorHandler: the status it sets, the body it returns (details is
\* the body's details field) and what it logs
DefaultErrorHandler(signal, ignoredPaths) ==
  IF signal.code = "NOT_FOUND"
  THEN IF IsIgnored(signal.path, ignoredPaths)
       THEN [status |-> 404, body |-> NoBody, details |-> JsonAbsent, logs |-> <<>>]
       ELSE [status |-> 404, body |-> <<"error", "Route not found", "path", signal.path>>,
             details |-> JsonAbsent, logs |-> <<Log("warn", "RouterExplorer")>>]
  ELSE IF signal.code = "VALIDATION"
  THEN [status |-> 400,
        body |-> <<"error", "Validation error", "message">> \o ErrorMessage(signal),
        details |-> Details(signal),
        logs |-> <<Log("error", "ValidationPipe")>>]
  ELSE [status |-> 500, body |-> <<"error">> \o signal.message, details |-> JsonAbsent,
        logs |-> <<Log("error", "ExceptionHandler")>>]

\* the interceptor calls the default handler with an error signal
HandleError ==
  /\ err.pc = "pending"
  /\ err' = [err EXCEPT !.pc = "handled",
                        !.result = DefaultErrorHandler(err.signal, options.ignoredPaths)]
  /\ UNCHANGED <<imports, providers, plugins, hooksOf, guardsOf, decorated, faulty, stalled,
                 paramTypes, resets, deco, reqs,
                 factoryVars, container, app, proc, boot, shut, nextId, signalsSent, trace>>

\* mutant: the error is caught and answered like a rejection
InterceptCaught(q, e) == [q EXCEPT !.pc = "done", !.status = 401, !.body = Unauthorized]

\* an error leaves routeHandler: the interceptor installed by
\* setupErrorHandling answers through the handler it captured; without an
\* interceptor the answer is the framework's own
Intercept(q, e) ==
  IF app.onError = <<>>
  THEN [q EXCEPT !.pc = "thrown", !.status = 500, !.body = <<"framework">>]
  ELSE IF Head(app.onError) = "default"
  THEN LET r == DefaultErrorHandler([e EXCEPT !.path = app.routes[q.route].path],
                                    options.ignoredPaths)
       IN [q EXCEPT !.pc = "thrown", !.status = r.status, !.body = r.body]
  ELSE [q EXCEPT !.pc = "thrown", !.body = <<"custom">>]

\* the awaited canActivate settles: its writes are in place; a throw rejects
\* routeHandler, false answers {error: 'Unauthorized'}, true goes on to the next
\* guard or, after the last one, merges the data and calls the handler
GuardSettles ==
  /\ Alive
  /\ \E q \in InFlight, b \in GuardBehaviours :
       /\ q.pc = "awaitGuard"
       /\ LET w == [data |-> b.data, status |-> b.status]
              q1 == [q EXCEPT !.calls[q.gi].outcome = b.outcome,
                              !.calls[q.gi].wrote = w,
                              !.status = IF b.status # 0 THEN b.status ELSE q.status,
                              !.data = Written(q.data, b.data)]
          IN IF b.outcome = "throw"
             THEN /\ reqs' = Replace(q, Intercept(q1, GuardError))
                  /\ UNCHANGED container
             ELSE IF GuardRejects(b.outcome)
             THEN /\ reqs' = Replace(q, [q1 EXCEPT !.pc = "done",
                                                   !.status = RejectStatus(q1.status),
                                                   !.body = Unauthorized])
                  /\ UNCHANGED container
             ELSE IF q.gi < Len(GuardsOfRequest(q))
             THEN /\ reqs' = Replace(q, CallGuard(q1, q.gi + 1))
                  /\ container' = ContainerRegister(container, GuardsOfRequest(q)[q.gi + 1])
             ELSE /\ reqs' = Replace(q, InvokeHandler(
                                [q1 EXCEPT !.context = MergeData(q1.context, q1.data)]))
                  /\ UNCHANGED container
  /\ UNCHANGED <<progVars, factoryVars, app, proc, boot, shut, nextId, signalsSent, trace>>

\* the response, or the thrown error, has left routeHandler
RequestCompletes ==
  /\ \E q \in InFlight :
       /\ q.pc \in {"done", "thrown"}
       /\ reqs' = reqs (-) SetToBag({q})
  /\ UNCHANGED <<progVars, factoryVars, container, app, proc, boot, shut, nextId,
                 signalsSent, trace>>

\* --------------------------------------------------------------- decorators
\* the decorators a controller's methods may carry: a route decorator, or
\* @UseGuards with a list of guard classes
GuardArgs ==
  {[i \in 1..n |-> GuardNames[i]] : n \in 1..MaxGuards} \cup {<<GuardNames[MaxGuards]>>}
Decorators ==
  {[kind |-> "route", handler |-> h, guards |-> <<>>] : h \in Handlers}
  \cup {[kind |-> "guards", handler |-> h, guards |-> gs] : h \in Handlers, gs \in GuardArgs}
DecoratorPrograms == UNION {[1..n -> Decorators] : n \in 0..MaxDecorators}

\* routes.find(r => r.handlerName === propertyKey): its position, 0 if none
FindRoute(routes, h) ==
  IF \E k \in DOMAIN routes : routes[k].handlerName = h
  THEN SetMin({k \in DOMAIN routes : routes[k].handlerName = h})
  ELSE 0

\* createRouteDecorator: push {method, path, handlerName, options}
ApplyRouteDecorator ==
  /\ deco.pc <= Len(deco.program)
  /\ deco.program[deco.pc].kind = "route"
  /\ LET h == deco.program[deco.pc].handler
     IN deco' = [deco EXCEPT !.pc = @ + 1,
                             !.routes = Append(@, [method |-> "get", path |-> h,
                                                   handlerName |-> h,
                                                   guards |-> NoGuardList])]
  /\ UNCHANGED <<imports, providers, plugins, hooksOf, guardsOf, decorated, faulty, stalled,
                 paramTypes, resets, err, reqs,
                 factoryVars, container, app, proc, boot, shut, nextId, signalsSent, trace>>

\* UseGuards: route.guards = guards when the handler's route exists, else
\* the guards are appended to the metadata stored against the handler name
ApplyUseGuards ==
  /\ deco.pc <= Len(deco.program)
  /\ deco.program[deco.pc].kind = "guards"
  /\ LET h == deco.program[deco.pc].handler
         guards == deco.program[deco.pc].guards
         k == FindRoute(deco.routes, h)
         existingGuards == IF deco.meta[h] = NoGuardList THEN <<>> ELSE deco.meta[h]
     IN IF k # 0
        THEN deco' = [deco EXCEPT !.pc = @ + 1, !.routes[k].guards = guards]
        ELSE deco' = [deco EXCEPT !.pc = @ + 1, !.meta[h] = existingGuards \o guards]
  /\ UNCHANGED <<imports, providers, plugins, hooksOf, guardsOf, decorated, faulty, stalled,
                 paramTypes, resets, err, reqs,
                 factoryVars, container, app, proc, boot, shut, nextId, signalsSent, trace>>

\* mutant: no fallback to the metadata stored against the handler name
GetGuardsMetadataRouteOnly(d, h) ==
  LET k == FindRoute(d.routes, h)
  IN IF k # 0 THEN d.routes[k].guards ELSE NoGuardList

\* getGuardsMetadata: the guards of the handler's route, else the metadata
\* stored against the handler name
GetGuardsMetadata(d, h) ==
  LET k == FindRoute(d.routes, h)
  IN IF k # 0 /\ d.routes[k].guards # NoGuardList THEN d.routes[k].guards ELSE d.meta[h]

\* the guard list routeHandler enforces for the route descriptor at position
\* k: route.guards || getGuardsMetadata(prototype, route.handlerName) || []
RouteGuards(d, k) ==
  IF d.routes[k].guards # NoGuardList THEN d.routes[k].guards
  ELSE IF GetGuardsMetadata(d, d.routes[k].handlerName) # NoGuardList
  THEN GetGuardsMetadata(d, d.routes[k].handlerName)
  ELSE <<>>

\* ------------------------------------------------------------ specification
Next ==
  \/ Bootstrap
  \/ RegisterModuleEnter
  \/ RegisterModuleImport
  \/ RegisterModuleProvider
  \/ RegisterModulePlugin
  \/ RegisterModuleController
  \/ RegisterModuleInstance
  \/ BootstrapHookStart
  \/ BootstrapHookSettle
  \/ SetupShutdownHandlers
  \/ Signal
  \/ ShutdownHookStart
  \/ ShutdownHookSettle
  \/ ShutdownExit

Spec == Init /\ [][Next]_vars

\* the application serving requests: one module with a guarded route, the
\* guard list of that route chosen at start, no termination signal
InitReq ==
  /\ imports = [m \in Modules |-> <<>>]
  /\ providers = DistinctProviders
  /\ plugins = DeclaredPlugins
  /\ hooksOf = SomeHooks
  /\ stalled = {}
  /\ paramTypes = NoParameters
  /\ guardsOf \in GuardLists
  /\ decorated = Modules
  /\ faulty = {}
  /\ InitFactory

NextReq ==
  \/ Bootstrap
  \/ RegisterModuleEnter
  \/ RegisterModuleImport
  \/ RegisterModuleProvider
  \/ RegisterModulePlugin
  \/ RegisterModuleController
  \/ RegisterModuleInstance
  \/ BootstrapHookStart
  \/ BootstrapHookSettle
  \/ SetupShutdownHandlers
  \/ RequestArrives
  \/ RouteHandlerStart
  \/ GuardSettles
  \/ RequestCompletes

SpecReq == InitReq /\ [][NextReq]_vars

\* bootstrap of an application that may be misconfigured: at most one
\* reachable class without a module descriptor (a class without a descriptor
\* has no import list), at most one throwing constructor or plugin
PluginNames == SeqRange(PluginOrder)
InitFail ==
  /\ imports \in ImportGraphs
  /\ providers = DistinctProviders
  /\ plugins = DeclaredPlugins
  /\ hooksOf = SomeHooks
  /\ stalled = {}
  /\ paramTypes = NoParameters
  /\ guardsOf = NoGuards
  /\ decorated \in {Modules} \cup {Modules \ {m} : m \in Modules}
  /\ \A m \in Modules \ decorated : imports[m] = <<>>
  /\ faulty \in {{}} \cup {{x} : x \in ProviderClasses \cup ControllerClasses
                                         \cup Modules \cup PluginNames}
  /\ InitFactory

NextFail ==
  \/ Bootstrap
  \/ RegisterModuleEnter
  \/ RegisterModuleImport
  \/ RegisterModuleProvider
  \/ RegisterModulePlugin
  \/ RegisterModuleController
  \/ RegisterModuleInstance
  \/ BootstrapHookStart
  \/ BootstrapHookSettle
  \/ SetupShutdownHandlers

SpecFail == InitFail /\ [][NextFail]_vars

\* a factory that is bootstrapped, reset and bootstrapped again
InitReset ==
  /\ imports \in ImportGraphs
  /\ providers = DistinctProviders
  /\ plugins = DeclaredPlugins
  /\ hooksOf = SomeHooks
  /\ stalled = {}
  /\ paramTypes = NoParameters
  /\ guardsOf = NoGuards
  /\ decorated = Modules
  /\ faulty = {}
  /\ InitFactory

NextReset ==
  \/ Bootstrap
  \/ RegisterModuleEnter
  \/ RegisterModuleImport
  \/ RegisterModuleProvider
  \/ RegisterModulePlugin
  \/ RegisterModuleController
  \/ RegisterModuleInstance
  \/ BootstrapHookStart
  \/ BootstrapHookSettle
  \/ SetupShutdownHandlers
  \/ Reset

SpecReset == InitReset /\ [][NextReset]_vars

\* the decorators of one controller class being evaluated, in any order
InitDeco ==
  /\ imports = [m \in Modules |-> <<>>]
  /\ providers = DistinctProviders
  /\ plugins = DeclaredPlugins
  /\ hooksOf = SomeHooks
  /\ stalled = {}
  /\ paramTypes = NoParameters
  /\ guardsOf = NoGuards
  /\ decorated = Modules
  /\ faulty = {}
  /\ resets = <<>>
  /\ \E program \in DecoratorPrograms : deco = [NoDecorators EXCEPT !.program = program]
  /\ err = NoErrorCall
  /\ reqs = EmptyBag
  /\ registeredModules = {}
  /\ registeredInstances = <<>>
  /\ isShuttingDown = FALSE
  /\ mainApp = "null"
  /\ jwtPluginConfig = "null"
  /\ options = InitialOptions
  /\ container = [reg |-> [c \in Classes |->
                             IF ClassLifetime[c] = "singleton" THEN "singleton" ELSE "none"],
                  inst |-> [c \in Classes |-> 0]]
  /\ app = [routes |-> <<>>, plugins |-> <<>>, onError |-> <<>>]
  /\ proc = [handlers |-> 0, state |-> "running", exitCode |-> -1]
  /\ boot = [pc |-> "idle", stack |-> <<>>, i |-> 0, awaiting |-> FALSE,
             opts |-> NoOptions, error |-> NoError]
  /\ shut = [pc |-> "idle", signal |-> "none", i |-> 0, awaiting |-> FALSE,
             late |-> FALSE]
  /\ nextId = 1
  /\ signalsSent = 0
  /\ trace = <<>>

NextDeco ==
  \/ ApplyRouteDecorator
  \/ ApplyUseGuards

SpecDeco == InitDeco /\ [][NextDeco]_vars

\* bootstrap of an application in which two modules list the same provider
\* classes, and controllers and a provider take providers as constructor
\* parameters
InitShared ==
  /\ imports \in ImportGraphs
  /\ providers = SharedProviders
  /\ plugins = DeclaredPlugins
  /\ hooksOf = SomeHooks
  /\ stalled = {}
  /\ paramTypes = SomeParameters
  /\ guardsOf = NoGuards
  /\ decorated = Modules
  /\ faulty = {}
  /\ InitFactory

NextShared ==
  \/ Bootstrap
  \/ RegisterModuleEnter
  \/ RegisterModuleImport
  \/ RegisterModuleProvider
  \/ RegisterModulePlugin
  \/ RegisterModuleController
  \/ RegisterModuleInstance
  \/ BootstrapHookStart
  \/ BootstrapHookSettle
  \/ SetupShutdownHandlers

SpecShared == InitShared /\ [][NextShared]_vars

\* the default error handler given one error signal, on a factory whose options
\* are the defaults or those a bootstrap has merged
InitErr ==
  /\ imports = [m \in Modules |-> <<>>]
  /\ providers = DistinctProviders
  /\ plugins = DeclaredPlugins
  /\ hooksOf = SomeHooks
  /\ stalled = {}
  /\ paramTypes = NoParameters
  /\ guardsOf = NoGuards
  /\ decorated = Modules
  /\ faulty = {}
  /\ resets = <<>>
  /\ deco = NoDecorators
  /\ \E signal \in ErrorSignals :
       err = [pc |-> "pending", signal |-> signal,
              result |-> DefaultErrorHandler(GuardError, <<>>)]
  /\ reqs = EmptyBag
  /\ registeredModules = {}
  /\ registeredInstances = <<>>
  /\ isShuttingDown = FALSE
  /\ mainApp = "null"
  /\ jwtPluginConfig = "null"
  /\ options \in {InitialOptions} \cup {MergeOptions(InitialOptions, o) : o \in OptionInputs}
  /\ container = [reg |-> [c \in Classes |->
                             IF ClassLifetime[c] = "singleton" THEN "singleton" ELSE "none"],
                  inst |-> [c \in Classes |-> 0]]
  /\ app = [routes |-> <<>>, plugins |-> <<>>, onError |-> <<>>]
  /\ proc = [handlers |-> 0, state |-> "running", exitCode |-> -1]
  /\ boot = [pc |-> "idle", stack |-> <<>>, i |-> 0, awaiting |-> FALSE,
             opts |-> NoOptions, error |-> NoError]
  /\ shut = [pc |-> "idle", signal |-> "none", i |-> 0, awaiting |-> FALSE,
             late |-> FALSE]
  /\ nextId = 1
  /\ signalsSent = 0
  /\ trace = <<>>

NextErr == HandleError

SpecErr == InitErr /\ [][NextErr]_vars

\* bootstrap of an application whose import graph has a cycle; a step of
\* registerModule that can run does run: the loops are synchronous or await
\* a plugin registration that settles
InitCycle ==
  /\ imports \in {imp \in ImportGraphs : ~Acyclic(imp)}
  /\ providers = DistinctProviders
  /\ plugins = DeclaredPlugins
  /\ hooksOf = SomeHooks
  /\ stalled = {}
  /\ paramTypes = NoParameters
  /\ guardsOf = NoGuards
  /\ decorated = Modules
  /\ faulty = {}
  /\ InitFactory

RegisterModuleStep ==
  \/ RegisterModuleEnter
  \/ RegisterModuleImport
  \/ RegisterModuleProvider
  \/ RegisterModulePlugin
  \/ RegisterModuleController
  \/ RegisterModuleInstance

NextCycle ==
  \/ Bootstrap
  \/ RegisterModuleStep
  \/ BootstrapHookStart
  \/ BootstrapHookSettle
  \/ SetupShutdownHandlers

SpecCycle == InitCycle /\ [][NextCycle]_vars /\ WF_vars(RegisterModuleStep)

\* an application whose shutdown hooks may include one that never settles;
\* the shutdown sequence, once started, takes every step it can: its loops
\* are synchronous up to the hook they await, and a hook that settles resumes
\* them
StalledHooks ==
  {{}} \cup {{<<c, h>>} : c \in ProviderClasses \cup ControllerClasses \cup Modules,
                          h \in SeqRange(ShutdownHooks)}
InitLive ==
  /\ imports \in {imp \in ImportGraphs :
                    Acyclic(imp) /\ SeqRange(imp[RootModule]) = Modules \ {RootModule}}
  /\ providers = DistinctProviders
  /\ plugins = DeclaredPlugins
  /\ hooksOf = SomeHooks
  /\ stalled \in {st \in StalledHooks : \A x \in st : x[2] \in hooksOf[x[1]]}
  /\ paramTypes = NoParameters
  /\ guardsOf = NoGuards
  /\ decorated = Modules
  /\ faulty = {}
  /\ InitFactory

ShutdownStep ==
  \/ ShutdownHookStart
  \/ ShutdownHookSettle
  \/ ShutdownExit

NextLive ==
  \/ Bootstrap
  \/ RegisterModuleStep
  \/ BootstrapHookStart
  \/ BootstrapHookSettle
  \/ SetupShutdownHandlers
  \/ Signal
  \/ ShutdownStep

SpecLive == InitLive /\ [][NextLive]_vars /\ WF_vars(ShutdownStep)

\* --------------------------------------------------- callers of the factory
\* bootstrap(root, app) called again on the same factory, without reset(),
\* after the previous call has resolved or rejected
BootstrapAgain ==
  /\ Alive
  /\ boot.pc \in {"resolved", "rejected"}
  /\ Cardinality({k \in DOMAIN trace : trace[k].ev = "bootstrap"}) < MaxCalls - 1
  /\ \E opts \in OptionInputs :
       /\ options' = MergeOptions(options, opts)
       /\ app' = SetupErrorHandling(app, options')
       /\ boot' = [boot EXCEPT !.pc = "register", !.opts = opts, !.error = NoError,
                                !.stack = <<Frame(RootModule, "enter")>>]
  /\ trace' = Append(trace, Event("bootstrap", RootModule, boot.error.kind, 0, boot.pc))
  /\ UNCHANGED <<progVars, reqs, registeredModules, registeredInstances, isShuttingDown,
                 mainApp, jwtPluginConfig, container, proc, shut, nextId, signalsSent>>

\* the pending registerModule call awaits a plugin registration
AwaitingPlugin ==
  /\ Registering
  /\ Top.pc = "plugins"
  /\ Top.i <= Len(PluginOrder)
  /\ PluginOrder[Top.i] \in ModulePlugins[Top.mod]

\* registerModule(M, app) called by another caller while the registerModule
\* call for M is in flight (M's own call, or a call it or its importers
\* await, is suspended at a plugin registration): M is in the
\* registered-module set, so the call returns at once and its promise
\* resolves
RegisterModuleOverlapping ==
  /\ AwaitingPlugin
  /\ Cardinality({k \in DOMAIN trace : trace[k].ev = "resolved"}) < MaxOverlaps
  /\ \E d \in DOMAIN boot.stack :
       LET moduleClass == boot.stack[d].mod
       IN /\ moduleClass \in registeredModules
          /\ trace' = Append(trace, Event("resolved", moduleClass, moduleClass, 0, ""))
  /\ UNCHANGED <<progVars, reqs, factoryVars, container, app, proc, boot, shut, nextId,
                 signalsSent>>

\* an application that may be misconfigured, whose factory is called more
\* than once: bootstrap again after bootstrap, registerModule during
\* registerModule
InitCalls ==
  /\ imports \in ImportGraphs
  /\ providers = DistinctProviders
  /\ plugins = DeclaredPlugins
  /\ hooksOf = SomeHooks
  /\ stalled = {}
  /\ paramTypes = NoParameters
  /\ guardsOf = NoGuards
  /\ decorated \in {Modules} \cup {Modules \ {m} : m \in Modules}
  /\ \A m \in Modules \ decorated : imports[m] = <<>>
  /\ faulty \in {{}} \cup {{x} : x \in ProviderClasses \cup ControllerClasses
                                         \cup Modules \cup SeqRange(PluginOrder)}
  /\ InitFactory

NextCalls ==
  \/ Bootstrap
  \/ BootstrapAgain
  \/ RegisterModuleStep
  \/ RegisterModuleOverlapping
  \/ BootstrapHookStart
  \/ BootstrapHookSettle
  \/ SetupShutdownHandlers

SpecCalls == InitCalls /\ [][NextCalls]_vars

\* ------------------------------------------ the synchronous factory variant
\* the ModuleFactory of factory/module.factory.ts: registerModule is one
\* synchronous call, so it is computed as a function of the factory state f
\* (registeredModules, registeredInstances, the container, the routes mounted
\* on the app, the next instance identity, the error thrown if any)
NewFactory ==
  [registeredModules |-> {}, registeredInstances |-> <<>>,
   container |-> [reg |-> [c \in Classes |->
                             IF ClassLifetime[c] = "singleton" THEN "singleton" ELSE "none"],
                  inst |-> [c \in Classes |-> 0]],
   routes |-> <<>>, nextId |-> 1, error |-> NoError]

\* createControllerPlugin of the variant: the handlers are mounted as they are
SyncControllerPlugin(controllerClass, id) ==
  [k \in DOMAIN RoutesOf[controllerClass] |->
     [method |-> RoutesOf[controllerClass][k].method,
      path |-> RoutesOf[controllerClass][k].path,
      handlerName |-> RoutesOf[controllerClass][k].handlerName,
      controller |-> controllerClass, instance |-> id]]

\* container.resolve(cls) and registerInstance(instance, type, cls); a
\* controller's routes are mounted after its record is pushed
SyncResolve(f, cls, type) ==
  LET cont == ContainerRegister(f.container, cls)
      inj == Inject(cont, f.nextId, cls)
      id == ResolveId(inj.cont, cls, inj.fresh)
  IN IF ConstructionThrows(cont, cls)
     THEN [f EXCEPT !.container = cont, !.error = Error("constructor", cls)]
     ELSE [f EXCEPT !.container = ContainerResolve(inj.cont, cls, inj.fresh),
                    !.nextId = IF ResolveIsNew(cont, cls) THEN inj.fresh + 1 ELSE f.nextId,
                    !.registeredInstances = RegisterInstance(@, cls, id, type, cls),
                    !.routes = IF type = "controller"
                               THEN @ \o SyncControllerPlugin(cls, id) ELSE @]

\* metadata.providers.forEach / metadata.controllers.forEach from position k;
\* a throw leaves the loop
RECURSIVE SyncResolveAll(_, _, _, _)
SyncResolveAll(f, classes, type, k) ==
  IF k > Len(classes) \/ f.error # NoError THEN f
  ELSE SyncResolveAll(SyncResolve(f, classes[k], type), classes, type, k + 1)

\* the variant's registerModule, and its imports.forEach from position k
RECURSIVE SyncRegisterModule(_, _), SyncImports(_, _, _)
SyncImports(f, mods, k) ==
  IF k > Len(mods) \/ f.error # NoError THEN f
  ELSE SyncImports(SyncRegisterModule(f, mods[k]), mods, k + 1)
SyncRegisterModule(f, moduleClass) ==
  IF moduleClass \in f.registeredModules THEN f
  ELSE LET added == [f EXCEPT !.registeredModules = @ \cup {moduleClass}]
       IN IF ~HasMetadata(moduleClass)
          THEN [added EXCEPT !.error = Error("is not a valid module", moduleClass)]
          ELSE LET imported == SyncImports(added, imports[moduleClass], 1)
                   provided == IF imported.error # NoError THEN imported
                               ELSE SyncResolveAll(imported, ModuleProviders[moduleClass],
                                                   "provider", 1)
                   controlled == IF provided.error # NoError THEN provided
                                 ELSE SyncResolveAll(provided, ModuleControllers[moduleClass],
                                                     "controller", 1)
               IN IF controlled.error # NoError THEN controlled
                  ELSE IF moduleClass \in faulty
                  THEN [controlled EXCEPT !.error = Error("constructor", moduleClass)]
                  ELSE [controlled EXCEPT
                          !.registeredInstances =
                             RegisterInstance(@, moduleClass, controlled.nextId, "module",
                                              moduleClass),
                          !.nextId = @ + 1]

\* the variant's factory after phase 3 of its bootstrap(RootModule, app)
SyncRegistered == SyncRegisterModule(NewFactory, RootModule)

\* bootstrap and shutdown of an application that declares no plugin and no
\* guard, and may be misconfigured: the asynchronous factory, to be compared
\* with the synchronous variant given the same application
InitPlain ==
  /\ imports \in ImportGraphs
  /\ providers = DistinctProviders
  /\ plugins = NoPlugins
  /\ hooksOf = SomeHooks
  /\ stalled = {}
  /\ paramTypes = NoParameters
  /\ guardsOf = NoGuards
  /\ decorated \in {Modules} \cup {Modules \ {m} : m \in Modules}
  /\ \A m \in Modules \ decorated : imports[m] = <<>>
  /\ faulty \in {{}} \cup {{x} : x \in ProviderClasses \cup ControllerClasses \cup Modules}
  /\ InitFactory

NextPlain ==
  \/ Bootstrap
  \/ RegisterModuleStep
  \/ BootstrapHookStart
  \/ BootstrapHookSettle
  \/ SetupShutdownHandlers
  \/ Signal
  \/ ShutdownStep

SpecPlain == InitPlain /\ [][NextPlain]_vars

\* ------------------------------------------------------- reading the history
\* positions of the history holding an event of kind ev
Events(ev) == {k \in DOMAIN trace : trace[k].ev = ev}

IsPrefix(a, b) == Len(a) <= Len(b) /\ \A k \in DOMAIN a : a[k] = b[k]

\* the hook hookName of record n has completed (settled without throwing)
Completed(n, hookName) ==
  \E l \in DOMAIN trace :
     /\ trace[l].ev = "hookEnd" /\ trace[l].n = n /\ trace[l].hook = hookName
     /\ trace[l].mod = "ok"

\* the registry positions whose instance implements hookName, in registry order
ImplementerSeq(hookName) ==
  SelectSeq([k \in DOMAIN registeredInstances |-> k],
            LAMBDA k : HasHook(registeredInstances[k].instance, hookName))

\* the registry positions hookName was invoked on, in invocation order
StartSeq(hookName) ==
  LET S == SelectSeq(trace, LAMBDA e : e.ev = "hookStart" /\ e.hook = hookName)
  IN [k \in DOMAIN S |-> S[k].n]

\* the hook invocations and settlements of all phases, in order
HookEvents == SelectSeq(trace, LAMBDA e : e.ev \in {"hookStart", "hookEnd"})

\* the loop of the phase hookName has run to its end
PhaseDone(hookName) ==
  \/ /\ hookName \in SeqRange(InitHooks)
     /\ \/ boot.pc \in {"setupShutdownHandlers", "resolved"}
        \/ \E a, b \in DOMAIN InitHooks : a < b /\ InitHooks[a] = hookName /\ InitHooks[b] = boot.pc
  \/ /\ hookName \in SeqRange(ShutdownHooks)
     /\ \/ shut.pc \in {"exit", "done"}
        \/ \E a, b \in DOMAIN ShutdownHooks :
              a < b /\ ShutdownHooks[a] = hookName /\ ShutdownHooks[b] = shut.pc

\* simple import paths from module a to module b that avoid the modules in seen
RECURSIVE SimplePaths(_, _, _)
SimplePaths(a, b, seen) ==
  IF a = b THEN {<<a>>}
  ELSE UNION {{<<a>> \o p : p \in SimplePaths(n, b, seen \cup {a})} :
                n \in SeqRange(imports[a]) \ (seen \cup {a})}

\* M is reachable from the root by two different import paths
Diamond(M) == Cardinality(SimplePaths(RootModule, M, {})) >= 2

\* how often an event of kind ev about class cls was logged while module mod
\* was being registered
Count(ev, cls, mod) ==
  Cardinality({k \in Events(ev) : trace[k].cls = cls /\ trace[k].mod = mod})

\* C1: idempotent module registration: after bootstrap, a module M that the
\* root reaches by two different import paths is in the registered-module set
\* and was added to it once, each of its declared providers was resolved once
\* by its registration, and the registry holds one module record for it
C1_IdempotentRegistration ==
  boot.pc = "resolved" =>
    \A M \in Modules :
       Diamond(M) =>
         /\ M \in registeredModules
         /\ Count("add", M, M) = 1
         /\ \A p \in SeqRange(ModuleProviders[M]) : Count("resolve", p, M) = 1
         /\ Cardinality({k \in DOMAIN registeredInstances :
                           /\ registeredInstances[k].type = "module"
                           /\ registeredInstances[k].moduleClass = M}) = 1

\* witness of C1: bootstrap has resolved on a diamond whose twice-reached
\* module declares providers
C1_Witness ==
  /\ boot.pc = "resolved"
  /\ \E M \in Modules : Diamond(M) /\ ModuleProviders[M] # <<>>

\* every declared provider and controller of module N and N itself have a
\* record logged before position k of the history
RecordedBefore(N, k) ==
  \A c \in SeqRange(ModuleProviders[N]) \cup SeqRange(ModuleControllers[N]) \cup {N} :
     \E l \in 1..(k - 1) :
        trace[l].ev = "record" /\ trace[l].cls = c /\ trace[l].mod = N

\* C2: dependencies first: in an acyclic import graph, when a provider of M
\* is resolved or a controller of M is constructed, every provider, controller
\* and module record of every module M imports, directly or transitively, is
\* already in the registry
C2_DependenciesFirst ==
  Acyclic(imports) =>
    \A k \in Events("resolve") :
       \A N \in Deps(imports, trace[k].mod) : RecordedBefore(N, k)

\* witness of C2: in an acyclic graph a module with a transitive import has
\* had a provider resolved or a controller constructed
C2_Witness ==
  /\ Acyclic(imports)
  /\ \E k \in Events("resolve") :
        \E N \in SeqRange(imports[trace[k].mod]) : imports[N] # <<>>

\* C3: hook phase ordering at bootstrap: while the onApplicationBootstrap hook
\* of any instance is running, the onModuleInit hook of every registered
\* instance that implements it has completed
C3_InitBeforeBootstrapHooks ==
  (boot.pc = "onApplicationBootstrap" /\ boot.awaiting) =>
    \A n \in DOMAIN registeredInstances :
       HasHook(registeredInstances[n].instance, "onModuleInit") =>
         Completed(n, "onModuleInit")

\* witness of C3: an onApplicationBootstrap hook is running while at least two
\* registered instances implement onModuleInit
C3_Witness ==
  /\ boot.pc = "onApplicationBootstrap" /\ boot.awaiting
  /\ Len(ImplementerSeq("onModuleInit")) >= 2

\* C4: within one phase the hook is invoked on the implementing records only,
\* in registry order and once each, on all of them when the loop has run to
\* its end; and an invocation starts only after the previous one has settled
C4_SequentialInOrder ==
  /\ \A h \in HookNames :
        LET started == StartSeq(h)
            implementing == ImplementerSeq(h)
        IN /\ IsPrefix(started, implementing)
           /\ PhaseDone(h) => started = implementing
  /\ LET H == HookEvents
     IN \A k \in DOMAIN H :
           IF k % 2 = 1 THEN H[k].ev = "hookStart"
           ELSE /\ H[k].ev = "hookEnd"
                /\ H[k].n = H[k - 1].n
                /\ H[k].hook = H[k - 1].hook

\* witness of C4: a phase has run to its end over a registry in which some
\* record lacks the hook, after it was invoked on at least two others
C4_Witness ==
  \E h \in HookNames :
     /\ PhaseDone(h)
     /\ Len(StartSeq(h)) >= 2
     /\ \E n \in DOMAIN registeredInstances :
           /\ ~HasHook(registeredInstances[n].instance, h)
           /\ n < StartSeq(h)[Len(StartSeq(h))]

\* a sequence without repeated elements
NoRepeats(q) == \A a, b \in DOMAIN q : a # b => q[a] # q[b]

\* C8: shutdown idempotence: however many SIGINT / SIGTERM signals reach the
\* installed handlers, also while a shutdown hook is awaited, the shutdown
\* sequence is started exactly once and no shutdown hook is invoked twice on
\* the same record
C8_ShutdownOnce ==
  /\ Cardinality(Events("shutdown")) <= 1
  /\ (signalsSent >= 1 /\ proc.state # "killed") => Cardinality(Events("shutdown")) = 1
  /\ \A h \in SeqRange(ShutdownHooks) : NoRepeats(StartSeq(h))

\* witness of C8: a second signal arrived while a shutdown hook was awaited,
\* and the sequence went on to invoke a hook of a later phase
C8_Witness ==
  /\ shut.late
  /\ signalsSent >= 2
  /\ StartSeq("onApplicationShutdown") # <<>>

\* every started hook invocation has settled
AllSettled == Len(HookEvents) % 2 = 0

\* C9: shutdown phase ordering: while a beforeApplicationShutdown hook runs
\* every implementing instance's onModuleDestroy has completed, while an
\* onApplicationShutdown hook runs every beforeApplicationShutdown has
\* completed, each phase goes in registry order, and the process exits only
\* once every started hook has settled and, unless a hook threw (exit code
\* 1), every implementing instance's onApplicationShutdown has completed
C9_ShutdownPhaseOrder ==
  /\ (shut.pc = "beforeApplicationShutdown" /\ shut.awaiting) =>
       \A n \in DOMAIN ImplementerSeq("onModuleDestroy") :
          Completed(ImplementerSeq("onModuleDestroy")[n], "onModuleDestroy")
  /\ (shut.pc = "onApplicationShutdown" /\ shut.awaiting) =>
       \A n \in DOMAIN ImplementerSeq("beforeApplicationShutdown") :
          Completed(ImplementerSeq("beforeApplicationShutdown")[n],
                    "beforeApplicationShutdown")
  /\ \A h \in SeqRange(ShutdownHooks) : IsPrefix(StartSeq(h), ImplementerSeq(h))
  /\ proc.state = "exited" =>
       /\ AllSettled
       /\ trace[Len(trace)].ev = "exit"
       /\ proc.exitCode = 0 =>
            \A n \in DOMAIN ImplementerSeq("onApplicationShutdown") :
               Completed(ImplementerSeq("onApplicationShutdown")[n],
                         "onApplicationShutdown")

\* witness of C9: the process has exited after all three phases ran, each on
\* at least two instances
C9_Witness ==
  /\ proc.state = "exited"
  /\ \A h \in SeqRange(ShutdownHooks) : Len(StartSeq(h)) >= 2

\* the positions of the history where a shutdown hook threw
ShutdownThrows ==
  {k \in Events("hookEnd") :
     trace[k].hook \in SeqRange(ShutdownHooks) /\ trace[k].mod = "throw"}

\* all three shutdown phases have run on every implementing record and no
\* hook threw
ShutdownCompletedClean ==
  /\ ShutdownThrows = {}
  /\ \A h \in SeqRange(ShutdownHooks) :
        \A n \in DOMAIN ImplementerSeq(h) : Completed(ImplementerSeq(h)[n], h)

\* C10: shutdown exit code: the process exits through shutdown with code 0
\* exactly when all three phases completed and no hook threw; once a
\* shutdown hook has thrown the next thing that happens is the exit with
\* code 1, and nothing after it
C10_ShutdownExitCode ==
  /\ proc.state = "exited" =>
       /\ proc.exitCode \in {0, 1}
       /\ proc.exitCode = 0 <=> ShutdownCompletedClean
  /\ \A k \in ShutdownThrows :
        /\ Len(trace) = k + 1
        /\ trace[k + 1].ev = "exit" /\ trace[k + 1].n = 1
        /\ proc.state = "exited" /\ proc.exitCode = 1

\* witness of C10: a hook of the second shutdown phase threw after the first
\* phase had completed, and the process has exited with code 1
C10_Witness ==
  /\ proc.state = "exited" /\ proc.exitCode = 1
  /\ \E k \in ShutdownThrows : trace[k].hook = "beforeApplicationShutdown"
  /\ StartSeq("onModuleDestroy") # <<>>


\* ------------------------------------------------------------ guards (C5-C7)
Settled(q) == q.pc \in {"done", "thrown"}
Passed(q, j) == q.calls[j].outcome = "true"
RejectedAt(q) == {j \in DOMAIN q.calls : q.calls[j].outcome = "false"}

\* C5. Guard short-circuit: on a route with guards [G1..Gn] the guards are
\* called one at a time in declaration order (the calls made so far are a
\* prefix of the list, and every call but the latest has returned true), and
\* once a guard has returned false no later guard is called and the handler
\* is not invoked for that request.
C5_GuardShortCircuit ==
  \A q \in InFlight :
    LET gs == GuardsOfRequest(q)
    IN /\ Len(q.calls) <= Len(gs)
       /\ \A j \in DOMAIN q.calls : q.calls[j].guard = gs[j]
       /\ \A j \in DOMAIN q.calls : j < Len(q.calls) => Passed(q, j)
       /\ \A j \in RejectedAt(q) : j = Len(q.calls) /\ q.handlerCalls = 0
       /\ q.handlerCalls > 0 =>
            Len(q.calls) = Len(gs) /\ \A j \in DOMAIN q.calls : Passed(q, j)

\* witness of C5: a request on a route with at least two guards was rejected
\* by the first one; the second was never called, nor was the handler
C5_Witness ==
  \E q \in InFlight :
    /\ Len(GuardsOfRequest(q)) >= 2
    /\ q.pc = "done"
    /\ RejectedAt(q) = {1}
    /\ Len(q.calls) = 1
    /\ q.handlerCalls = 0

\* C6. Guard rejection status: when a guard rejects, the response status is
\* 401 if that guard wrote no response status, else the status that guard
\* wrote before returning false; the body is {error: "Unauthorized"}.
C6_GuardRejectionStatus ==
  \A q \in InFlight :
    \A j \in RejectedAt(q) :
      q.pc = "done" =>
        /\ q.status = IF q.calls[j].wrote.status = 0 THEN 401
                      ELSE q.calls[j].wrote.status
        /\ q.body = Unauthorized

\* the data bag after the writes of the first n guard calls of a request
RECURSIVE BagAfter(_, _)
BagAfter(q, n) ==
  IF n = 0 THEN NoData
  ELSE Written(BagAfter(q, n - 1), q.calls[n].wrote.data)

\* C7. Guard data propagation: when every guard of a request has passed, the
\* context the handler receives holds every key the guards wrote with the
\* value the data bag holds for it (the value of the last guard that wrote
\* the key), and every guard call saw in the data bag the writes of all the
\* guards called before it.
C7_GuardDataPropagation ==
  \A q \in InFlight :
    /\ \A j \in DOMAIN q.calls : q.calls[j].seen = BagAfter(q, j - 1)
    /\ (q.handlerCalls > 0 /\ q.calls # <<>>) =>
         \A j \in DOMAIN q.calls, k \in DataKeys :
           LET w == q.calls[j].wrote.data
           IN w[k] # Undefined =>
                /\ q.context[k] = q.data[k]
                /\ q.context[k] # Undefined
                /\ (\A i \in DOMAIN q.calls : i > j => q.calls[i].wrote.data[k] = Undefined)
                     => q.context[k] = w[k]

\* witness of C7: a request passed two guards, the first wrote data.role and
\* data.user, the second saw both and wrote data.user = X, and the handler got
\* role from the first guard and user from the second
C7_Witness ==
  \E q \in InFlight :
    /\ q.handlerCalls = 1
    /\ Len(q.calls) >= 2
    /\ q.calls[1].wrote.data = [user |-> "Z", role |-> "Y"]
    /\ q.calls[2].seen = [user |-> "Z", role |-> "Y"]
    /\ q.calls[2].wrote.data["user"] = "X"
    /\ q.context = [user |-> "X", role |-> "Y"]


\* ------------------------------------------------ bootstrap failures (C11-C12)
\* the reachable classes without a module descriptor
MissingDescriptor == Reach(imports, RootModule) \ decorated

\* bootstrap has got past registerModule(root)
PastRegistration ==
  boot.pc \in SeqRange(InitHooks) \cup {"setupShutdownHandlers", "resolved"}

\* C11. Missing module descriptor fails fast: when the root class, or a class
\* the root imports directly or transitively, has no module descriptor,
\* bootstrap never gets past registration, and it rejects with the
\* configuration error whose message names a class without descriptor (unless
\* a constructor or plugin threw first).
C11_MissingDescriptorFailsFast ==
  /\ MissingDescriptor # {} => ~PastRegistration
  /\ boot.error.kind = "is not a valid module" =>
       boot.pc = "rejected" /\ boot.error.cls \in MissingDescriptor
  /\ (MissingDescriptor # {} /\ faulty = {} /\ boot.pc = "rejected") =>
       boot.error.kind = "is not a valid module"

\* witness of C11: bootstrap was rejected for a class the root imports, after
\* the root itself had been entered
C11_Witness ==
  /\ boot.pc = "rejected"
  /\ boot.error.kind = "is not a valid module"
  /\ boot.error.cls # RootModule
  /\ RootModule \in registeredModules

\* everything a registered module declares: itself, its providers,
\* controllers and plugins
DeclaredBy(m) ==
  {m} \cup SeqRange(ModuleProviders[m]) \cup SeqRange(ModuleControllers[m])
      \cup ModulePlugins[m]

\* C12. Bootstrap aborts on the first failure: a throw during module
\* registration (missing descriptor, throwing constructor, throwing plugin
\* registration) rejects bootstrap with no lifecycle hook invoked and no signal
\* handler installed, and bootstrap never gets past registration of a graph
\* holding such a class; a throwing onModuleInit rejects bootstrap with that
\* error, it is the last hook invoked, no onApplicationBootstrap is invoked and
\* no signal handler is installed.
C12_BootstrapAborts ==
  /\ boot.error.kind \in {"is not a valid module", "constructor", "plugin"} =>
       /\ boot.pc = "rejected"
       /\ Events("hookStart") = {}
       /\ proc.handlers = 0
  /\ PastRegistration =>
       \A m \in Reach(imports, RootModule) : m \in decorated /\ DeclaredBy(m) \cap faulty = {}
  /\ boot.error.kind = "onModuleInit" =>
       /\ boot.pc = "rejected"
       /\ proc.handlers = 0
       /\ trace[Len(trace)].ev = "hookEnd" /\ trace[Len(trace)].mod = "throw"
       /\ trace[Len(trace)].hook = "onModuleInit"
       /\ trace[Len(trace)].cls = boot.error.cls
       /\ \A k \in Events("hookStart") : trace[k].hook = "onModuleInit"
  /\ \A k \in Events("hookEnd") :
       (trace[k].mod = "throw" /\ trace[k].hook = "onModuleInit") =>
          k = Len(trace) /\ boot.pc = "rejected"

\* witness of C12: an onModuleInit hook threw while a later record also
\* implements onModuleInit and some record implements onApplicationBootstrap
C12_Witness ==
  /\ boot.pc = "rejected"
  /\ boot.error.kind = "onModuleInit"
  /\ Implementers(registeredInstances, "onModuleInit", boot.i + 1) # {}
  /\ Implementers(registeredInstances, "onApplicationBootstrap", 1) # {}


\* ----------------------------------------- postcondition, reset (C13, C14, C20)
\* the route descriptor d of controller class c is mounted, bound to the
\* instance of a controller record of the registry
Mounted(c, d) ==
  \E k \in DOMAIN registeredInstances, r \in DOMAIN app.routes :
     /\ registeredInstances[k].type = "controller"
     /\ registeredInstances[k].instance.cls = c
     /\ app.routes[r].controller = c
     /\ app.routes[r].instance = registeredInstances[k].instance.id
     /\ app.routes[r].method = RoutesOf[c][d].method
     /\ app.routes[r].path = RoutesOf[c][d].path
     /\ app.routes[r].handlerName = RoutesOf[c][d].handlerName

\* C13. Bootstrap postcondition: on a fresh or reset factory, when bootstrap
\* has resolved, every route descriptor of every controller declared by a
\* module reachable from the root is mounted on the app, every registry record
\* whose instance implements onModuleInit or onApplicationBootstrap has had
\* that hook complete, and the signal handlers are installed.
C13_BootstrapPostcondition ==
  boot.pc = "resolved" =>
    /\ \A m \in Reach(imports, RootModule) :
         \A j \in DOMAIN ModuleControllers[m] :
            \A d \in DOMAIN RoutesOf[ModuleControllers[m][j]] :
               Mounted(ModuleControllers[m][j], d)
    /\ \A k \in DOMAIN registeredInstances :
         \A h \in SeqRange(InitHooks) :
            HasHook(registeredInstances[k].instance, h) => Completed(k, h)
    /\ proc.handlers >= 1

\* witness of C13: bootstrap has resolved on a reset factory, for a root that
\* reaches every module
C13_Witness ==
  /\ boot.pc = "resolved"
  /\ Len(resets) >= 1
  /\ Reach(imports, RootModule) = Modules

\* C14. Reset clears state: after reset() the registered-module set and the
\* instance registry are empty, and a later bootstrap that resolves ends with
\* the registry contents and the effective options that the same bootstrap
\* call gives on a brand-new factory.
C14_ResetClearsState ==
  /\ (Len(resets) >= 1 /\ boot.pc = "idle") =>
        registeredModules = {} /\ registeredInstances = <<>>
  /\ (Len(resets) >= 1 /\ boot.pc = "resolved" /\ resets[1].outcome = "resolved") =>
        /\ registeredModules = resets[1].modules
        /\ Shape(registeredInstances) = resets[1].registry
  /\ (Len(resets) >= 1 /\ boot.pc = "resolved") =>
        options = MergeOptions(InitialOptions, boot.opts)

\* C20. Ignored paths are a union: once bootstrap has merged its options, the
\* effective ignoredPaths holds the four built-in paths and the paths of this
\* call's options, and no other path.
C20_IgnoredPathsUnion ==
  boot.pc # "idle" =>
    SeqRange(options.ignoredPaths) =
      SeqRange(DEFAULT_IGNORED_PATHS) \cup
      (IF "ignoredPaths" \in boot.opts.has THEN SeqRange(boot.opts.ignoredPaths) ELSE {})

\* witness of C20: a first bootstrap was given /health, the factory was
\* reset, and a second bootstrap was given /favicon.ico and /metrics
C20_Witness ==
  /\ boot.pc = "resolved"
  /\ Len(resets) >= 1
  /\ "/health" \in SeqRange(resets[1].options.ignoredPaths)
  /\ boot.opts.ignoredPaths = <<"/favicon.ico", "/metrics">>
  /\ "/metrics" \in SeqRange(options.ignoredPaths)


\* ------------------------------------------------- registration steps (C15)
\* what the registration of module m did itself, in order: kind and class
OwnSteps(m) ==
  LET S == SelectSeq(trace, LAMBDA e : e.mod = m /\ e.ev \in {"resolve", "record", "plugin"})
  IN [k \in DOMAIN S |-> <<S[k].ev, S[k].cls>>]

\* resolve and record of each class of the list cs, in list order
RECURSIVE ResolveRecord(_)
ResolveRecord(cs) ==
  IF cs = <<>> THEN <<>>
  ELSE <<<<"resolve", Head(cs)>>, <<"record", Head(cs)>>>> \o ResolveRecord(Tail(cs))

\* the steps the claim fixes for module m: providers in declaration order,
\* then JWT, CORS, cron as far as declared, then controllers in declaration
\* order, then the module record
FixedSteps(m) ==
  ResolveRecord(ModuleProviders[m])
  \o SelectSeq(<<<<"plugin", "jwt">>, <<"plugin", "cors">>, <<"plugin", "cron">>>>,
               LAMBDA x : x[2] \in ModulePlugins[m])
  \o ResolveRecord(ModuleControllers[m])
  \o <<<<"record", m>>>>

\* the registry position of the record of class c (0 without one)
PositionOf(c) ==
  IF \E k \in DOMAIN registeredInstances : registeredInstances[k].instance.cls = c
  THEN CHOOSE k \in DOMAIN registeredInstances : registeredInstances[k].instance.cls = c
  ELSE 0

C19_JwtOnControllerSubtrees ==
  (boot.pc = "resolved" /\ \E m \in registeredModules : "jwt" \in ModulePlugins[m]) =>
     /\ jwtPluginConfig # "null"
     /\ \A r \in DOMAIN app.routes : app.routes[r].jwt # "null"


\* ------------------------------------- throwing guards, isolation (C16, C17)
ThrownAt(q) == {j \in DOMAIN q.calls : q.calls[j].outcome = "throw"}

\* C16. A guard that throws in canActivate is not caught by the route
\* handler: it is the last guard called for the request, the handler is not
\* invoked, the data bag is not merged into the context, and the error reaches
\* the error interceptor, which with the default handler answers status 500
\* and body {error: message}.
C16_GuardThrowPropagates ==
  \A q \in InFlight :
    \A j \in ThrownAt(q) :
      /\ j = Len(q.calls)
      /\ q.pc = "thrown"
      /\ q.handlerCalls = 0
      /\ q.context = NoData
      /\ (app.onError # <<>> /\ Head(app.onError) = "default") =>
            q.status = 500 /\ q.body = <<"error">> \o GuardError.message
      /\ (app.onError # <<>> /\ Head(app.onError) = "custom") => q.body = <<"custom">>

\* witness of C16: with the default handler installed, one request had its
\* first of two guards throw, and another had its second guard throw after
\* the first had written data
C16_Witness ==
  /\ app.onError = <<"default">>
  /\ \E q \in InFlight :
       Len(GuardsOfRequest(q)) >= 2 /\ ThrownAt(q) = {1} /\ q.status = 500
  /\ \E q \in InFlight :
       /\ ThrownAt(q) = {2}
       /\ q.data["user"] = "X"
       /\ q.context = NoData
       /\ q.status = 500

\* the values the guard calls 1..n of request q wrote to key k
OwnWrites(q, k, n) ==
  {q.calls[j].wrote.data[k] : j \in {i \in DOMAIN q.calls : i <= n}} \ {Undefined}

\* C17. Per-request isolation: a request starts with an empty data bag, and
\* whatever the requests in flight interleave, every value in a request's
\* data bag, in the data bag its guards saw and on the context its handler
\* received was written by a guard call of that same request.
C17_PerRequestIsolation ==
  \A q \in InFlight :
    /\ q.calls = <<>> => q.data = NoData /\ q.context = NoData
    /\ \A k \in DataKeys :
         /\ q.data[k] # Undefined => q.data[k] \in OwnWrites(q, k, Len(q.calls))
         /\ q.context[k] # Undefined => q.context[k] \in OwnWrites(q, k, Len(q.calls))
         /\ \A j \in DOMAIN q.calls :
              q.calls[j].seen[k] # Undefined => q.calls[j].seen[k] \in OwnWrites(q, k, j - 1)

\* witness of C17: two requests are in flight on the guarded route, a guard
\* of one has written data.user = X, and the other is in its first guard call
\* with an empty data bag
C17_Witness ==
  \E q1, q2 \in InFlight :
    /\ q1.pc = "awaitGuard" /\ q1.gi = 2 /\ q1.data["user"] = "X"
    /\ q2.pc = "awaitGuard" /\ q2.gi = 1 /\ q2.data = NoData
    /\ q2.calls[1].seen = NoData


\* --------------------------------------------------- guard resolution (C18)
\* the positions of the program holding a decorator of that kind on handler h
Applied(kind, h) ==
  {k \in DOMAIN deco.program : deco.program[k].kind = kind /\ deco.program[k].handler = h}

\* C18. Guard list resolution is independent of decorator evaluation order:
\* for a handler carrying one route decorator and one @UseGuards(G1..Gn), once
\* the decorators are evaluated the guard list enforced for its route is
\* [G1..Gn] in that order, whether @UseGuards was evaluated before the route
\* decorator or after it.
C18_GuardResolutionOrderIndependent ==
  deco.pc > Len(deco.program) =>
    \A h \in Handlers :
      (Cardinality(Applied("route", h)) = 1 /\ Cardinality(Applied("guards", h)) = 1) =>
         \A k \in DOMAIN deco.routes :
            deco.routes[k].handlerName = h =>
               \A g \in Applied("guards", h) : RouteGuards(deco, k) = deco.program[g].guards

\* witness of C18: both orders have been evaluated: on "create" @UseGuards
\* came before the route decorator and its guards are stored against the
\* handler name, on "list" it came after and its guards are on the descriptor
C18_Witness ==
  /\ Len(deco.program) = 4
  /\ deco.pc > Len(deco.program)
  /\ \A h \in Handlers : Cardinality(Applied("route", h)) = 1
  /\ deco.meta["create"] = <<"G1", "G2">>
  /\ deco.routes[FindRoute(deco.routes, "create")].guards = NoGuardList
  /\ deco.routes[FindRoute(deco.routes, "list")].guards = <<"G1", "G2">>


\* ------------------------------------------- default error handler (C21-C23)
Handled(code) == err.pc = "handled" /\ err.signal.code = code
WarningLogs(result) == {k \in DOMAIN result.logs : result.logs[k].level = "warn"}

\* C21. On a NOT_FOUND signal the default handler sets status 404; when the
\* path is in the effective ignored-paths list it returns no body and logs no
\* warning, otherwise it logs a warning and returns
\* {error: "Route not found", path}.
C21_NotFoundHandling ==
  Handled("NOT_FOUND") =>
    /\ err.result.status = 404
    /\ IF \E k \in DOMAIN options.ignoredPaths : options.ignoredPaths[k] = err.signal.path
       THEN err.result.body = NoBody /\ WarningLogs(err.result) = {}
       ELSE /\ err.result.body = <<"error", "Route not found", "path", err.signal.path>>
            /\ WarningLogs(err.result) # {}

\* witness of C21: a path the caller added to the built-in ignored paths was
\* answered 404 without body or warning
C21_Witness ==
  /\ Handled("NOT_FOUND")
  /\ err.signal.path = "/health"
  /\ err.signal.path \notin SeqRange(DEFAULT_IGNORED_PATHS)
  /\ err.result = [status |-> 404, body |-> NoBody, details |-> JsonAbsent, logs |-> <<>>]

\* the error message parsed to an object holding a list of issues, each with
\* a path that is a list of keys, or, with Pathless, with no path at all
HasIssueList(Pathless) ==
  /\ err.signal.parsed.kind = "object"
  /\ err.signal.parsed.errors.kind = "list"
  /\ \A k \in DOMAIN err.signal.parsed.errors.list :
       \/ err.signal.parsed.errors.list[k].path.kind = "list"
       \/ Pathless /\ err.signal.parsed.errors.list[k].path.kind = "absent"
TheIssues == err.signal.parsed.errors.list

\* "a.b": the keys of a path with dots between them
RECURSIVE Dotted(_)
Dotted(path) ==
  IF path = <<>> THEN <<>>
  ELSE IF Len(path) = 1 THEN <<path[1]>>
  ELSE <<path[1], ".">> \o Dotted(Tail(path))

\* "field: message, field: message" for the issues from position k on, the
\* field of an issue without keys being the given fallback
RECURSIVE Rendered(_, _, _)
Rendered(issues, k, fallback) ==
  IF k > Len(issues) THEN <<>>
  ELSE (IF issues[k].path.list # <<>> THEN Dotted(issues[k].path.list) ELSE fallback)
       \o <<": ", issues[k].message>>
       \o (IF k < Len(issues) THEN <<", ">> ELSE <<>>)
       \o Rendered(issues, k + 1, fallback)

C23_HandlerTotal ==
  err.pc = "handled" =>
    /\ err.signal.code = "NOT_FOUND" => err.result.status = 404
    /\ err.signal.code = "VALIDATION" =>
         /\ err.result.status = 400
         /\ err.result.details.kind = "list"
         /\ (err.signal.parsed.kind # "object" \/ err.signal.parsed.errors.kind # "list") =>
              err.result.body =
                <<"error", "Validation error", "message">> \o err.signal.message
    /\ err.signal.code \notin {"NOT_FOUND", "VALIDATION"} =>
         /\ err.result.status = 500
         /\ err.result.body = <<"error">> \o err.signal.message


\* ------------------------------------------------- interceptor selection (C24)
\* what the caller of bootstrap asked for, the defaults filling what it left out
AskedEnable ==
  IF "enableErrorHandling" \in boot.opts.has THEN boot.opts.enableErrorHandling ELSE TRUE
AskedHandler ==
  IF "errorHandler" \in boot.opts.has THEN boot.opts.errorHandler ELSE Absent

\* C24. Once bootstrap has set up error handling: with enableErrorHandling
\* true (the default) exactly one interceptor is installed, delegating to the
\* caller's errorHandler when one was supplied and to the built-in handler
\* otherwise; with enableErrorHandling false none is installed. An error that
\* reaches a caller-supplied handler is answered by it and the built-in
\* mapping is not applied; one that reaches the built-in handler gets the
\* built-in mapping.
C24_InterceptorSelection ==
  /\ boot.pc = "idle" => app.onError = <<>>
  /\ boot.pc # "idle" =>
       IF AskedEnable
       THEN app.onError = <<IF AskedHandler # Absent THEN AskedHandler ELSE "default">>
       ELSE app.onError = <<>>
  /\ \A q \in InFlight :
       q.pc = "thrown" =>
         IF AskedEnable /\ AskedHandler # Absent
         THEN /\ q.body = <<AskedHandler>>
              /\ q.status = IF \E j \in DOMAIN q.calls : q.calls[j].wrote.status # 0
                            THEN 403 ELSE 0
         ELSE IF AskedEnable
         THEN /\ q.status = DefaultErrorHandler(GuardError, options.ignoredPaths).status
              /\ q.body = DefaultErrorHandler(GuardError, options.ignoredPaths).body
         ELSE q.body = <<"framework">>

\* witness of C24: a bootstrap given an errorHandler installed it as the only
\* interceptor, and an error of a request was answered by it
C24_Witness ==
  /\ "errorHandler" \in boot.opts.has
  /\ app.onError = <<"custom">>
  /\ \E q \in InFlight : q.pc = "thrown" /\ q.body = <<"custom">> /\ q.status # 500


\* ------------------------------------------------- registry contents (C25)
\* the records of the registry with that role tag holding an instance of cls
RecordsOf(type, cls) ==
  {k \in DOMAIN registeredInstances :
     registeredInstances[k].type = type /\ registeredInstances[k].instance.cls = cls}

\* C25. Registry contents after bootstrap, for an acyclic import graph (every
\* provider and controller class of the application is declared by one
\* module): the registered-module set is the set of modules reachable from
\* the root, and the instance registry holds exactly one 'provider' record per
\* provider they declare, one 'controller' record per controller they declare
\* and one 'module' record per reachable module, and nothing else.
C25_RegistryContents ==
  (boot.pc = "resolved" /\ Acyclic(imports)) =>
    /\ registeredModules = Reach(imports, RootModule)
    /\ \A m \in Reach(imports, RootModule) :
         /\ Cardinality(RecordsOf("module", m)) = 1
         /\ \A j \in DOMAIN ModuleProviders[m] :
              Cardinality(RecordsOf("provider", ModuleProviders[m][j])) = 1
         /\ \A j \in DOMAIN ModuleControllers[m] :
              Cardinality(RecordsOf("controller", ModuleControllers[m][j])) = 1
    /\ \A k \in DOMAIN registeredInstances :
         \E m \in Reach(imports, RootModule) :
            LET cls == registeredInstances[k].instance.cls
                type == registeredInstances[k].type
            IN \/ type = "module" /\ cls = m
               \/ type = "provider" /\ \E j \in DOMAIN ModuleProviders[m] :
                                          cls = ModuleProviders[m][j]
               \/ type = "controller" /\ \E j \in DOMAIN ModuleControllers[m] :
                                            cls = ModuleControllers[m][j]

\* witness of C25: A imports B alone, B declares providers, A a controller:
\* modules {A, B}, B's and A's provider records, one controller record, two
\* module records
C25_Witness ==
  /\ boot.pc = "resolved"
  /\ imports = [A |-> <<"B">>, B |-> <<>>, C |-> <<>>]
  /\ registeredModules = {"A", "B"}
  /\ Cardinality({k \in DOMAIN registeredInstances :
                    registeredInstances[k].type = "provider"}) = 3
  /\ Cardinality({k \in DOMAIN registeredInstances :
                    registeredInstances[k].type = "controller"}) = 1
  /\ Cardinality({k \in DOMAIN registeredInstances :
                    registeredInstances[k].type = "module"}) = 2


\* ------------------------------------------------ registry monotonicity (C26)
\* C26. Registries change only by growth or reset: every step either leaves
\* the records of the instance registry in place and at most appends records
\* at its end, and leaves every module in the registered-module set, or is a
\* call of reset(), which empties both.
C26_GrowthOrReset ==
  [][\/ /\ IsPrefix(registeredInstances, registeredInstances')
        /\ registeredModules \subseteq registeredModules'
     \/ /\ Len(resets') = Len(resets) + 1
        /\ registeredInstances' = <<>>
        /\ registeredModules' = {}]_vars

\* witness of C26: a registry that had grown was emptied by reset() and has
\* grown again during the next bootstrap
C26_Witness ==
  /\ Len(resets) = 1
  /\ Len(resets[1].registry) >= 3
  /\ resets[1].modules # {}
  /\ Len(registeredInstances) >= 3
  /\ Cardinality(registeredModules) >= 2


\* ------------------------------------------- one record per instance (C27)
HookStarts(hookName) ==
  {k \in DOMAIN trace : trace[k].ev = "hookStart" /\ trace[k].hook = hookName}

\* C27. Exactly one record per resolved instance: no live instance is held by
\* two records of the instance registry, also when a singleton provider class
\* is listed in the providers of two modules, and so no instance has the same
\* lifecycle hook invoked twice within one phase.
C27_OneRecordPerInstance ==
  /\ \A k1, k2 \in DOMAIN registeredInstances :
       k1 # k2 => registeredInstances[k1].instance # registeredInstances[k2].instance
  /\ \A h \in HookNames :
       \A e1, e2 \in HookStarts(h) :
          e1 # e2 => registeredInstances[trace[e1].n].instance #
                     registeredInstances[trace[e2].n].instance


\* ------------------------------------------------ owning module class (C28)
\* C28. Each record of the instance registry carries the owning module class:
\* for a 'provider' or 'controller' record it is a module whose descriptor
\* declares the class of the instance, for a 'module' record the module class
\* itself.
C28_RecordOwningModule ==
  \A k \in DOMAIN registeredInstances :
    LET r == registeredInstances[k]
    IN /\ r.type = "module" => r.moduleClass = r.instance.cls
       /\ r.type = "provider" =>
            /\ r.moduleClass \in Modules
            /\ r.instance.cls \in SeqRange(ModuleProviders[r.moduleClass])
       /\ r.type = "controller" =>
            /\ r.moduleClass \in Modules
            /\ r.instance.cls \in SeqRange(ModuleControllers[r.moduleClass])


\* ------------------------------------------------- handler invocation (C29)
AllGuardsPassed(q) ==
  /\ Len(q.calls) = Len(GuardsOfRequest(q))
  /\ \A j \in DOMAIN q.calls : q.calls[j].outcome = "true"

\* C29. For every request the controller handler is invoked exactly once if
\* the route has no guards or every guard of its list returned true, and not
\* at all otherwise; canActivate is invoked at most once per request for each
\* guard of the list, in list order; on a route without guards no execution
\* context is built and the request context reaches the handler unmodified.
C29_HandlerInvocation ==
  \A q \in InFlight :
    /\ q.handlerCalls \in {0, 1}
    /\ q.handlerCalls = 1 <=>
         (q.pc = "done" /\ (GuardsOfRequest(q) = <<>> \/ AllGuardsPassed(q)))
    /\ q.pc = "done" =>
         (q.handlerCalls = 0 <=> \E j \in DOMAIN q.calls : q.calls[j].outcome = "false")
    /\ Len(q.calls) <= Len(GuardsOfRequest(q))
    /\ \A j \in DOMAIN q.calls : q.calls[j].guard = GuardsOfRequest(q)[j]
    /\ GuardsOfRequest(q) = <<>> =>
         q.calls = <<>> /\ q.data = NoData /\ q.context = NoData

\* witness of C29: a request whose two guards both passed and a request to a
\* route without guards have each had the handler invoked once
C29_Witness ==
  /\ \E q \in InFlight :
       Len(GuardsOfRequest(q)) = 2 /\ AllGuardsPassed(q) /\ q.handlerCalls = 1
  /\ \E q \in InFlight :
       GuardsOfRequest(q) = <<>> /\ q.pc = "done" /\ q.handlerCalls = 1


\* ------------------------------------------- shutdown after bootstrap (C30)
ShutdownHookEvents == {k \in DOMAIN trace : trace[k].hook \in SeqRange(ShutdownHooks)}

\* the (record, hook) pairs of the init hooks that have completed, and the
\* position in the history of the last init hook event (0 without any)
InitHooksDone ==
  {<<trace[l].n, trace[l].hook>> :
     l \in {l \in DOMAIN trace : /\ trace[l].ev = "hookEnd"
                                 /\ trace[l].mod = "ok"
                                 /\ trace[l].hook \in SeqRange(InitHooks)}}
LastInitHookEvent ==
  SetMax({0} \cup {k \in DOMAIN trace : trace[k].hook \in SeqRange(InitHooks)})

\* C30. Shutdown cannot start before bootstrap has finished its init phases:
\* the signal handlers are installed only once bootstrap has run every
\* onModuleInit and onApplicationBootstrap hook, so no shutdown hook is
\* invoked before the last init hook has completed, and a signal delivered
\* during registration or an init phase does not start the shutdown sequence.
C30_ShutdownAfterBootstrap ==
  /\ proc.handlers > 0 => boot.pc = "resolved"
  /\ boot.pc # "resolved" =>
       /\ ~isShuttingDown
       /\ shut.pc = "idle"
       /\ \A k \in DOMAIN trace : trace[k].hook \notin SeqRange(ShutdownHooks)
  /\ LET started == ShutdownHookEvents
         done == InitHooksDone
         last == LastInitHookEvent
     IN started # {} =>
          /\ \A k \in DOMAIN registeredInstances :
                \A h \in SeqRange(InitHooks) :
                   HasHook(registeredInstances[k].instance, h) => <<k, h>> \in done
          /\ \A k \in started : last < k

\* witness of C30: a signal was delivered while an onModuleInit hook was
\* awaited; the shutdown sequence did not start
C30_Witness ==
  /\ signalsSent > 0
  /\ boot.pc = "onModuleInit"
  /\ boot.awaiting
  /\ ~isShuttingDown
  /\ ShutdownHookEvents = {}


\* ------------------------------------------------------------------- C31
\* the modules of the application that lie on an import cycle the root reaches
OnCycle == {m \in Reach(imports, RootModule) : m \in Deps(imports, m)}

\* the module records the registry holds for module m
ModuleRecords(m) ==
  {k \in DOMAIN registeredInstances :
     registeredInstances[k].type = "module" /\ registeredInstances[k].moduleClass = m}

\* the longest chain of pending registerModule calls: every module once, and
\* the call that returns at the idempotence check
MaxDepth == Cardinality(Modules) + 1

\* C31: termination under import cycles: with a cycle in the import graph,
\* every registerModule call that is entered returns (at whatever depth of the
\* recursion it is pending), so registration as a whole ends; a module of the
\* cycle is never added to the registered-module set twice and never has two
\* module records, and once registration is over it is in the set, was added
\* once and has exactly one module record
C31_CycleTerminates ==
  /\ \A d \in 1..MaxDepth : (boot.pc = "register" /\ Depth >= d) ~> (Depth < d)
  /\ [](\A m \in OnCycle :
          /\ Count("add", m, m) <= 1
          /\ Cardinality(ModuleRecords(m)) <= 1
          /\ boot.pc \notin {"idle", "register"} =>
                /\ m \in registeredModules
                /\ Count("add", m, m) = 1
                /\ Cardinality(ModuleRecords(m)) = 1)

\* witness of C31: registration is over on a graph in which the root is on a
\* cycle through all three modules
C31_Witness ==
  /\ boot.pc = "resolved"
  /\ OnCycle = Modules
  /\ \A m \in Modules : Len(imports[m]) = 1

\* ------------------------------------------------------------------- C32
\* C32: no forced exit: once a signal has started the shutdown sequence, the
\* process exits unless the sequence comes to await a hook that never
\* settles (so it exits whenever every hook settles); from the moment such a
\* hook is awaited the sequence stays where it is for good: the process keeps
\* running, the latch stays set, no further hook is invoked, and a later
\* signal changes nothing but the count of signals received
C32_NoForcedExit ==
  /\ (shut.pc # "idle") ~> (proc.state = "exited" \/ Hung)
  /\ [][Hung =>
          /\ Hung'
          /\ isShuttingDown /\ proc.state = "running"
          /\ UNCHANGED <<proc, isShuttingDown, registeredInstances, trace, boot>>
          /\ shut'.pc = shut.pc /\ shut'.i = shut.i]_vars

\* witness of C32: a second signal has arrived while the sequence awaits a
\* hook that never settles, and hooks of later records and phases are left
C32_Witness ==
  /\ Hung
  /\ shut.late
  /\ shut.pc = ShutdownHooks[1]
  /\ Implementers(registeredInstances, shut.pc, shut.i + 1) # {}
  /\ signalsSent = MaxSignals

\* ------------------------------------------------------------------- C33
\* the (method, path) routes of a list of mounted routes, in mounting order
MethodPaths(routes) ==
  [k \in DOMAIN routes |-> <<routes[k].method, routes[k].path, routes[k].controller,
                             routes[k].instance>>]

\* registration by the asynchronous factory is over: it resolved, or threw
RegistrationOver ==
  \/ boot.pc \notin {"idle", "register", "rejected"}
  \/ boot.pc = "rejected" /\ boot.error.kind \in {"is not a valid module", "constructor"}

\* the records of registry regs implementing hookName, in registry order
ImplementersOf(regs, hookName) ==
  SelectSeq([k \in DOMAIN regs |-> k], LAMBDA k : HasHook(regs[k].instance, hookName))

\* C33: the synchronous factory variant and the asynchronous one agree on an
\* application without plugin configuration and without guards: while the
\* asynchronous registration runs, its module set, registry and routes are
\* part of what the synchronous registerModule produces in its one call; once
\* it is over, both have the same registered-module set, the same sequence of
\* registry records, the same mounted routes and the same outcome (resolved,
\* or the same error); and every bootstrap and shutdown hook phase invokes
\* the hooks in the order the variant's registry gives
C33_VariantsAgree ==
  LET sync == SyncRegistered
  IN /\ registeredModules \subseteq sync.registeredModules
     /\ IsPrefix(registeredInstances, sync.registeredInstances)
     /\ IsPrefix(MethodPaths(app.routes), MethodPaths(sync.routes))
     /\ RegistrationOver =>
          /\ registeredModules = sync.registeredModules
          /\ registeredInstances = sync.registeredInstances
          /\ MethodPaths(app.routes) = MethodPaths(sync.routes)
          /\ sync.error = IF boot.pc = "rejected" THEN boot.error ELSE NoError
     /\ \A h \in HookNames :
          IsPrefix(StartSeq(h), ImplementersOf(sync.registeredInstances, h))

\* witness of C33: on a graph where every module is reached and one is reached
\* twice, bootstrap resolved and the shutdown sequence ran to the exit
C33_Witness ==
  /\ boot.pc = "resolved"
  /\ registeredModules = Modules
  /\ \E M \in Modules : Diamond(M)
  /\ shut.pc = "done"

\* witness of the failing case of C33: registration threw after a first
\* module was recorded
C33_WitnessThrow ==
  /\ boot.pc = "rejected"
  /\ boot.error.kind = "constructor"
  /\ \E k \in DOMAIN registeredInstances : registeredInstances[k].type = "module"

\* ------------------------------------------------------------------- C34
\* the descriptors of the controller's list recorded for handler h
DescriptorsOf(h) == {k \in DOMAIN deco.routes : deco.routes[k].handlerName = h}

\* C34: route descriptor uniqueness: whatever decorators have been evaluated,
\* the descriptor list holds at most one descriptor per handler name
C34_OneDescriptorPerHandler ==
  \A h \in Handlers : Cardinality(DescriptorsOf(h)) <= 1

\* the other half of C34: a decorator leaves the descriptors already in the
\* list in place, changing at most their guards, and a route decorator
\* appends exactly one descriptor at the end
C34_AppendOnly ==
  [][/\ Len(deco'.routes) \in {Len(deco.routes), Len(deco.routes) + 1}
     /\ \A k \in DOMAIN deco.routes :
          [deco'.routes[k] EXCEPT !.guards = deco.routes[k].guards] = deco.routes[k]
     /\ Len(deco'.routes) = Len(deco.routes) + 1 <=>
          deco.program[deco.pc].kind = "route"]_vars

\* ------------------------------------------------------------------- C35
\* bootstrap() has been called again without a reset in between
CalledAgain == Events("bootstrap") # {}

\* C35: a failed registerModule leaves the factory as it was: every member
\* of the registered-module set carries a module descriptor (the class that
\* made registerModule throw the configuration error is not in the set), and
\* registering a root without descriptor again fails again with the
\* configuration error
C35_FailedRegistrationLeavesNoTrace ==
  /\ registeredModules \subseteq decorated
  /\ (CalledAgain /\ RootModule \notin decorated /\ boot.pc # "register") =>
       /\ boot.pc = "rejected"
       /\ boot.error = Error("is not a valid module", RootModule)

\* ------------------------------------------------------------------- C36
\* a bootstrap() call was made after an earlier one had failed during module
\* registration
RetriedAfterFailedRegistration ==
  \E k \in Events("bootstrap") :
     /\ trace[k].hook = "rejected"
     /\ trace[k].mod \in {"is not a valid module", "constructor", "plugin"}

\* every provider a reachable module declares has a registry record, and every
\* route of every controller it declares is mounted
FullyRegistered ==
  \A m \in Reach(imports, RootModule) :
     /\ \A p \in SeqRange(ModuleProviders[m]) :
          \E k \in DOMAIN registeredInstances :
             registeredInstances[k].type = "provider" /\ registeredInstances[k].instance.cls = p
     /\ \A j \in DOMAIN ModuleControllers[m] :
          \A d \in DOMAIN RoutesOf[ModuleControllers[m][j]] :
             Mounted(ModuleControllers[m][j], d)

\* C36: no silent partial success on retry: a bootstrap() called again,
\* without reset(), after a bootstrap() that failed during module
\* registration resolves only if every declared provider is recorded and
\* every declared controller's routes are mounted
C36_NoPartialSuccessOnRetry ==
  (RetriedAfterFailedRegistration /\ boot.pc = "resolved") => FullyRegistered

\* ------------------------------------------------------------------- C37
\* how often hookName was invoked on the record at position k of the registry
Invocations(k, hookName) ==
  Cardinality({e \in Events("hookStart") : trace[e].n = k /\ trace[e].hook = hookName})

\* C37: init hooks run once per instance: over any sequence of bootstrap()
\* calls on one factory without reset(), onModuleInit and
\* onApplicationBootstrap are each invoked at most once on every registry
\* record
C37_InitHooksOncePerInstance ==
  \A k \in DOMAIN registeredInstances :
     \A h \in SeqRange(InitHooks) : Invocations(k, h) <= 1

\* ------------------------------------------------------------------- C38
\* C38: a resolved registerModule means a fully registered module: when a
\* registerModule(M, app) call made while M's registration is in flight
\* resolves, every provider and controller M declares and M's module record
\* are already in the registry
C38_ResolvedMeansRegistered ==
  \A k \in Events("resolved") : RecordedBefore(trace[k].cls, k)

\* ------------------------------------------------------------------- C39
\* C39: no guard is silently dropped: once the decorators are evaluated,
\* every guard class passed to any @UseGuards on a handler is in the guard
\* list enforced for every route of that handler
C39_NoGuardDropped ==
  deco.pc > Len(deco.program) =>
    \A h \in Handlers :
       \A k \in DescriptorsOf(h) :
          \A g \in Applied("guards", h) :
             SeqRange(deco.program[g].guards) \subseteq SeqRange(RouteGuards(deco, k))

\* ------------------------------------------------------------------- C40
\* C40: hooks run on the instance that is used: an instance of a declared
\* provider handed to the constructor of a controller or provider is the
\* instance every registry record of that provider class holds
C40_RecordedInstanceIsInjected ==
  \A e \in Events("inject") :
     \A k \in DOMAIN registeredInstances :
        (registeredInstances[k].type = "provider"
           /\ registeredInstances[k].instance.cls = trace[e].cls) =>
          registeredInstances[k].instance.id = trace[e].n

\* the singleton half of C40: for a provider class with singleton lifetime
\* the injected instance is the recorded one
C40_SingletonRecordedIsInjected ==
  \A e \in Events("inject") :
     \A k \in DOMAIN registeredInstances :
        (registeredInstances[k].type = "provider"
           /\ registeredInstances[k].instance.cls = trace[e].cls
           /\ ClassLifetime[trace[e].cls] = "singleton") =>
          registeredInstances[k].instance.id = trace[e].n
====
